---- MODULE Spec2Model ----
(***************************************************************************)
(* Model of supersetbot's dependency-graph helpers (src/utils.js):         *)
(* compareSemVer, parsePinnedRequirementsTree, mergeParsedRequirementsTree *)
(* and of the fold that Github.getSubPackageTree makes of them; of         *)
(* Github.allDescendantPackages and Github.processPythonReqsDiffOutput     *)
(* (src/github.js); of getDockerTags (src/docker.js); and of the methods   *)
(* of Github that keep state or send requests: checkIfUserInTeam,          *)
(* getSubPackageTree, syncLabels and createBumpLibPullRequest.             *)
(*                                                                         *)
(* A JavaScript string is modelled as a sequence of one-character strings, *)
(* so that split, trim, startsWith, replace, match and Number are computed *)
(* as the code computes them.                                              *)
(***************************************************************************)
EXTENDS Integers, Sequences, FiniteSets, TLC

VARIABLES
    op,           \* where the call under way stands ("init" before it starts)
    verA,         \* compareSemVer: first argument
    verB,         \* compareSemVer: second argument
    verResult,    \* compareSemVer: returned value
    requirements, \* parsePinnedRequirementsTree: the text given
    lines,        \* parsePinnedRequirementsTree: the lines kept by the filters
    lineNo,       \* parsePinnedRequirementsTree: index of the next line of forEach
    depsObject,   \* parsePinnedRequirementsTree: the graph built so far
    currentDep,   \* parsePinnedRequirementsTree: the most recently pinned package
    thrown,       \* parsePinnedRequirementsTree: a TypeError was raised
    obj1,         \* mergeParsedRequirementsTree: first argument
    obj2,         \* mergeParsedRequirementsTree: second argument
    merged,       \* mergeParsedRequirementsTree: returned graph
    subPackages,  \* getSubPackageTree: the graph folded so far
    filesRead,    \* getSubPackageTree: how many requirements files were merged
    heap,         \* the objects and arrays in memory, by reference
    obj3,         \* a third graph, merged after obj1 and obj2
    regrouped,    \* the three graphs merged from the right
    parent,       \* allDescendantPackages: the argument
    descendants,  \* allDescendantPackages: the returned list
    walkError,    \* allDescendantPackages: a TypeError was raised
    rawOutput,    \* processPythonReqsDiffOutput: the diff text given
    result,       \* processPythonReqsDiffOutput: the returned object
    preset,       \* getDockerTags: the build preset
    platforms,    \* getDockerTags: the list of platforms
    sha,          \* getDockerTags: the commit hash
    buildContext, \* getDockerTags: the event that started the build
    buildContextRef, \* getDockerTags: the release tag, branch or PR id
    forceLatest,  \* getDockerTags: the latest tag is asked for
    latestRelease, \* getDockerTags: the latest release known, or null
    tags,         \* getDockerTags: the returned list of tags
    userInTeamCache, \* Github: the entries of the Map #userInTeamCache
    membership,   \* GitHub: the state of each user's membership of a team
    calls,        \* Github: the calls made on the instance, with what they returned
    requests,     \* the requests sent to GitHub and the commands run, in order
    packageTree,  \* Github: the private field #packageTree
    reqsData,     \* the text of each requirements file of the working directory
    issueLabels,  \* GitHub: the names of the labels on the pull request
    tmpDir,       \* the temporary directory of the clone: "none", "exists", "removed"
    rawDiff,      \* what git diff prints once the packages are re-locked
    failing,      \* the command or request that fails when it is run, or "none"
    existingPRs   \* GitHub: how many open pull requests the bump branch has

verVars == <<verA, verB, verResult>>
parseVars == <<requirements, lines, lineNo, depsObject, currentDep, thrown>>
mergeVars == <<obj1, obj2, merged, heap>>
treeVars == <<subPackages, filesRead>>
assocVars == <<obj3, regrouped>>
walkVars == <<parent, descendants, walkError>>
diffVars == <<rawOutput, result>>
dockerVars ==
    <<preset, platforms, sha, buildContext, buildContextRef, forceLatest,
      latestRelease, tags>>
teamVars == <<userInTeamCache, membership>>
logVars == <<calls, requests>>
packageTreeVars == <<packageTree, reqsData>>
labelVars == <<issueLabels>>
bumpVars == <<tmpDir, rawDiff, failing, existingPRs>>
githubVars == <<teamVars, logVars, packageTreeVars, labelVars, bumpVars>>
vars ==
    <<op, verVars, parseVars, mergeVars, treeVars, assocVars, walkVars,
      diffVars, dockerVars, githubVars>>

\* JavaScript values a number-typed expression can take: a number, NaN, or
\* undefined (an array index past the end), as tagged tuples
NumberValue(n) == <<"number", n>>
NaN == <<"NaN">>
undefined == <<"undefined">>
IsNumber(x) == x[1] = "number"

\* null, where a string is expected (a version, the current package): a
\* one-element sequence that is no string of characters
null == <<"null">>

-----------------------------------------------------------------------------
(* Strings *)

DigitChars == <<"0", "1", "2", "3", "4", "5", "6", "7", "8", "9">>

IsDigit(c) == \E i \in 1..Len(DigitChars) : DigitChars[i] = c

DigitValue(c) == (CHOOSE i \in 1..Len(DigitChars) : DigitChars[i] = c) - 1

\* the elements of a list
Range(list) == {list[i] : i \in 1..Len(list)}

RECURSIVE Join(_, _)
\* Array.prototype.join: the strings of ss separated by sep
Join(ss, sep) ==
    IF ss = <<>> THEN <<>>
    ELSE IF Len(ss) = 1 THEN ss[1]
    ELSE ss[1] \o sep \o Join(Tail(ss), sep)

\* String.prototype.startsWith
StartsWith(s, p) == Len(s) >= Len(p) /\ SubSeq(s, 1, Len(p)) = p

\* the first index at which p occurs in s, 0 if it does not occur
IndexOf(s, p) ==
    LET hits == {i \in 1..(Len(s) - Len(p) + 1) : SubSeq(s, i, i + Len(p) - 1) = p}
    IN IF hits = {} THEN 0 ELSE CHOOSE i \in hits : \A j \in hits : i <= j

RECURSIVE Split(_, _)
\* String.prototype.split with a one-character separator: the pieces between
\* the separators, the empty string giving one empty piece
Split(s, sep) ==
    IF s = <<>> THEN << <<>> >>
    ELSE LET rest == Split(Tail(s), sep)
         IN IF Head(s) = sep THEN << <<>> >> \o rest
            ELSE << <<Head(s)>> \o Head(rest) >> \o Tail(rest)

\* the white space of the texts modelled
IsSpace(c) == c = " "

RECURSIVE TrimStart(_)
TrimStart(s) == IF s # <<>> /\ IsSpace(Head(s)) THEN TrimStart(Tail(s)) ELSE s

RECURSIVE TrimEnd(_)
TrimEnd(s) ==
    IF s # <<>> /\ IsSpace(s[Len(s)]) THEN TrimEnd(SubSeq(s, 1, Len(s) - 1)) ELSE s

\* String.prototype.trim
Trim(s) == TrimEnd(TrimStart(s))

UpperChars == <<"A", "B", "C", "V", "I", "R", "E">>
LowerChars == <<"a", "b", "c", "v", "i", "r", "e">>

\* String.prototype.toLowerCase, on the letters the texts use
LowerChar(c) ==
    IF \E i \in 1..Len(UpperChars) : UpperChars[i] = c
    THEN LowerChars[CHOOSE i \in 1..Len(UpperChars) : UpperChars[i] = c]
    ELSE c
ToLowerCase(s) == [i \in 1..Len(s) |-> LowerChar(s[i])]

\* String.prototype.replace(p, '') with a string pattern: the first occurrence
\* of p is removed
RemoveFirst(s, p) ==
    LET i == IndexOf(s, p)
    IN IF i = 0 THEN s
       ELSE SubSeq(s, 1, i - 1) \o SubSeq(s, i + Len(p), Len(s))

-----------------------------------------------------------------------------
(* compareSemVer *)

\* the number of leading components compareSemVer looks at
SemVerParts == 3

RECURSIVE DecimalValue(_, _)
\* the value of a string of decimal digits, acc being the value read so far
DecimalValue(s, acc) ==
    IF s = <<>> THEN acc
    ELSE DecimalValue(Tail(s), 10 * acc + DigitValue(Head(s)))

\* a conversion that rejects a numeral with a leading zero
NumberNoLeadingZero(s) ==
    IF s = <<>> THEN NumberValue(0)
    ELSE IF Len(s) > 1 /\ s[1] = "0" THEN NaN
    ELSE IF \A i \in 1..Len(s) : IsDigit(s[i]) THEN NumberValue(DecimalValue(s, 0))
    ELSE NaN

\* Number(s) for a string s of digits and letters other than e and x:
\* the empty string is 0, a string of digits is its decimal value (leading
\* zeros do not count), anything else is NaN.
Number(s) ==
    IF s = <<>> THEN NumberValue(0)
    ELSE IF \A i \in 1..Len(s) : IsDigit(s[i]) THEN NumberValue(DecimalValue(s, 0))
    ELSE NaN

\* a comparison written <= where < is meant
JsLtOrEqual(x, y) == IsNumber(x) /\ IsNumber(y) /\ x[2] <= y[2]

\* x > y and x < y on values that are numbers, NaN or undefined: undefined
\* converts to NaN and every comparison with NaN is false
JsGt(x, y) == IsNumber(x) /\ IsNumber(y) /\ x[2] > y[2]
JsLt(x, y) == IsNumber(x) /\ IsNumber(y) /\ x[2] < y[2]

\* a.split('.').map(Number)
SplitVersion(a) ==
    LET parts == Split(a, ".") IN [i \in 1..Len(parts) |-> Number(parts[i])]

\* an index that is one too far: the loop would start at the minor component
AtOneBased(arr, i) == IF i + 2 \in 1..Len(arr) THEN arr[i + 2] ELSE undefined

\* a missing component read as 0
AtOrZero(arr, i) == IF i + 1 \in 1..Len(arr) THEN arr[i + 1] ELSE NumberValue(0)

\* arr[i] of a JavaScript array (0-based i): undefined outside the array
At(arr, i) == IF i + 1 \in 1..Len(arr) THEN arr[i + 1] ELSE undefined

RECURSIVE CompareFrom(_, _, _)
\* the loop of compareSemVer from index i on
CompareFrom(splitA, splitB, i) ==
    IF i >= SemVerParts THEN 0
    ELSE IF JsGt(At(splitA, i), At(splitB, i)) THEN 1
    ELSE IF JsLt(At(splitA, i), At(splitB, i)) THEN -1
    ELSE CompareFrom(splitA, splitB, i + 1)

compareSemVer(a, b) == CompareFrom(SplitVersion(a), SplitVersion(b), 0)

-----------------------------------------------------------------------------
(* parsePinnedRequirementsTree *)

\* an object without keys
EmptyObject == << >>

\* obj[key] !== undefined, for keys that are package names: the properties an
\* object inherits (constructor, __proto__) are not among the names modelled
HasKey(obj, key) == key \in DOMAIN obj

\* obj[key] = value
SetKey(obj, key, value) ==
    [k \in DOMAIN obj \cup {key} |-> IF k = key THEN value ELSE obj[k]]

NewNode(version) == [version |-> version, vias |-> <<>>, deps |-> <<>>]

\* the filters applied to the lines of the text before they are parsed
KeepRaw(line) == ~StartsWith(line, <<"#">>)

\* the second filter without its test for editable installs
KeepTrimmedEditable(line) ==
    /\ ~StartsWith(line, <<"#", " ", "v", "i", "a", " ", "-", "r", " ">>)
    /\ line # <<>>

KeepTrimmed(line) ==
    /\ ~StartsWith(line, <<"#", " ", "v", "i", "a", " ", "-", "r", " ">>)
    /\ ~StartsWith(line, <<"-", "e", " ">>)
    /\ line # <<>>

\* the lines of a text that reach forEach: split, filtered, trimmed, lowercased
Preprocess(text) ==
    LET raw == SelectSeq(Split(text, "\n"), KeepRaw)
        trimmed == [i \in 1..Len(raw) |-> ToLowerCase(Trim(raw[i]))]
    IN SelectSeq(trimmed, KeepTrimmed)

\* line.match(/^(.+)==(.*)/): the greedy first group ends at the last '=='
\* that has a character before it; <<>> when there is none, else <<g1, g2>>
DepMatch(line) ==
    LET hits == {i \in 2..(Len(line) - 1) : line[i] = "=" /\ line[i + 1] = "="}
    IN IF hits = {} THEN <<>>
       ELSE LET i == CHOOSE k \in hits : \A j \in hits : k >= j
            IN <<SubSeq(line, 1, i - 1), SubSeq(line, i + 2, Len(line))>>

\* line.replace('# via', '').trim().replace('#', '').trim()
ViaLib(line) ==
    Trim(RemoveFirst(Trim(RemoveFirst(line, <<"#", " ", "v", "i", "a">>)), <<"#">>))

\* a branch that stores the version of every pin line, empty or not
PinLineAlways(st, match) ==
    LET dep == Trim(match[1])
        version == Trim(match[2])
    IN IF dep # <<>> /\ ~HasKey(st.deps, dep)
       THEN [st EXCEPT !.cur = dep, !.deps = SetKey(@, dep, NewNode(version))]
       ELSE IF HasKey(st.deps, dep)
            THEN [st EXCEPT !.cur = dep, !.deps[dep].version = version]
            ELSE [st EXCEPT !.cur = dep, !.thrown = TRUE]

\* the branch of a line matching <name>==<version>; st is the state of the
\* loop: [deps: the graph, cur: currentDep, thrown: a TypeError was raised]
PinLine(st, match) ==
    LET dep == Trim(match[1])
        version == Trim(match[2])
    IN IF dep # <<>> /\ ~HasKey(st.deps, dep)
       THEN [st EXCEPT !.cur = dep, !.deps = SetKey(@, dep, NewNode(version))]
       ELSE IF version # <<>>
       THEN IF HasKey(st.deps, dep)
            THEN [st EXCEPT !.cur = dep, !.deps[dep].version = version]
            ELSE [st EXCEPT !.cur = dep, !.thrown = TRUE]
       ELSE [st EXCEPT !.cur = dep]

\* a branch that records an edge only if it is not recorded yet
ViaLineOnce(st, line) ==
    LET viaLib == ViaLib(line)
    IN IF viaLib # <<>> /\ st.cur # null /\ st.cur # <<>>
          /\ ~(HasKey(st.deps, viaLib) /\ st.cur \in Range(st.deps[viaLib].deps))
       THEN LET d1 == IF HasKey(st.deps, viaLib) THEN st.deps
                      ELSE SetKey(st.deps, viaLib, NewNode(null))
                d2 == [d1 EXCEPT ![viaLib].deps = Append(@, st.cur)]
                d3 == IF HasKey(d2, st.cur) THEN d2
                      ELSE SetKey(d2, st.cur, NewNode(null))
                d4 == [d3 EXCEPT ![st.cur].vias = Append(@, viaLib)]
            IN [st EXCEPT !.deps = d4]
       ELSE st

\* the branch of every other line
ViaLine(st, line) ==
    LET viaLib == ViaLib(line)
    IN IF viaLib # <<>> /\ st.cur # null /\ st.cur # <<>>
       THEN LET d1 == IF HasKey(st.deps, viaLib) THEN st.deps
                      ELSE SetKey(st.deps, viaLib, NewNode(null))
                d2 == [d1 EXCEPT ![viaLib].deps = Append(@, st.cur)]
                d3 == IF HasKey(d2, st.cur) THEN d2
                      ELSE SetKey(d2, st.cur, NewNode(null))
                d4 == [d3 EXCEPT ![st.cur].vias = Append(@, viaLib)]
            IN [st EXCEPT !.deps = d4]
       ELSE st

\* the callback of lines.forEach
ProcessLine(st, line) ==
    LET match == DepMatch(line)
    IN IF match # <<>> THEN PinLine(st, match) ELSE ViaLine(st, line)

LoopStart == [deps |-> EmptyObject, cur |-> null, thrown |-> FALSE]

RECURSIVE ForEach(_, _)
\* lines.forEach from the state st on; an exception ends the loop
ForEach(ls, st) ==
    IF ls = <<>> \/ st.thrown THEN st
    ELSE ForEach(Tail(ls), ProcessLine(st, Head(ls)))

\* the state in which the loop of parsePinnedRequirementsTree(text) ends
ParseEnd(text) == ForEach(Preprocess(text), LoopStart)

\* the graph parsePinnedRequirementsTree(text) returns
parsePinnedRequirementsTree(text) == ParseEnd(text).deps

-----------------------------------------------------------------------------
(* mergeParsedRequirementsTree *)

RECURSIVE DedupKeepLast(_)
\* a deduplication that keeps the last occurrence of each element
DedupKeepLast(list) ==
    IF list = <<>> THEN <<>>
    ELSE LET back == DedupKeepLast(Tail(list))
         IN IF Head(list) \in Range(back) THEN back ELSE <<Head(list)>> \o back

RECURSIVE Dedup(_)
\* [...new Set(list)]: the first occurrence of each element, in order
Dedup(list) ==
    IF list = <<>> THEN <<>>
    ELSE LET front == Dedup(SubSeq(list, 1, Len(list) - 1))
             last == list[Len(list)]
         IN IF last \in Range(front) THEN front ELSE Append(front, last)

\* a read that skips the first entry of the list
ListWithoutFirst(obj, key, field) ==
    IF HasKey(obj, key) /\ field \in DOMAIN obj[key] /\ obj[key][field] # <<>>
    THEN Tail(obj[key][field]) ELSE <<>>

\* obj[key]?.deps || [] and obj[key]?.vias || []
ListOrEmpty(obj, key, field) ==
    IF HasKey(obj, key) /\ field \in DOMAIN obj[key] THEN obj[key][field] ELSE <<>>

\* obj[key]?.version
VersionOf(obj, key) ==
    IF HasKey(obj, key) /\ "version" \in DOMAIN obj[key]
    THEN obj[key].version ELSE undefined

\* a value that || keeps: not undefined, not null, not the empty string
Truthy(v) == v # undefined /\ v # null /\ v # <<>>

\* an || that gives null when its operands are two different versions
OrElseUnlessConflict(x, y) ==
    IF Truthy(x) /\ Truthy(y) /\ x # y THEN null
    ELSE IF Truthy(x) THEN x ELSE y

\* an || that prefers its second operand
OrElseLast(x, y) == IF Truthy(y) THEN y ELSE x

\* x || y
OrElse(x, y) == IF Truthy(x) THEN x ELSE y

\* a merge that reads the vias of the first graph twice
MergeViasOfFirst(o1, o2) ==
    [key \in DOMAIN o1 \cup DOMAIN o2 |->
        [deps |-> Dedup(ListOrEmpty(o1, key, "deps") \o ListOrEmpty(o2, key, "deps")),
         vias |-> Dedup(ListOrEmpty(o1, key, "vias") \o ListOrEmpty(o1, key, "vias")),
         version |-> OrElse(VersionOf(o1, key), VersionOf(o2, key))]]

mergeParsedRequirementsTree(o1, o2) ==
    [key \in DOMAIN o1 \cup DOMAIN o2 |->
        [deps |-> Dedup(ListOrEmpty(o1, key, "deps") \o ListOrEmpty(o2, key, "deps")),
         vias |-> Dedup(ListOrEmpty(o1, key, "vias") \o ListOrEmpty(o2, key, "vias")),
         version |-> OrElse(VersionOf(o1, key), VersionOf(o2, key))]]

-----------------------------------------------------------------------------
(* allDescendantPackages *)

\* a lookup that has no default: undefined is what the loop is given for a
\* package that is not a key
LoopOverLookup(tree, p) == [iterable |-> FALSE, items |-> <<>>]

\* what for (const child of tree[parent] || []) loops over: the node of the
\* package when it is a key, a plain object, which || keeps and which is not
\* iterable; the empty array otherwise
LoopOver(tree, p) ==
    IF HasKey(tree, p) THEN [iterable |-> FALSE, items |-> <<>>]
    ELSE [iterable |-> TRUE, items |-> <<>>]

\* the outcome of a call: a TypeError, or the list returned
Throw == [thrown |-> TRUE, value |-> <<>>]
Return(list) == [thrown |-> FALSE, value |-> list]

RECURSIVE allDescendantPackages(_, _)
RECURSIVE WalkChildren(_, _, _)

\* the loop over the children that are left, acc being descendants so far
WalkChildren(tree, children, acc) ==
    IF children = <<>> THEN Return(acc)
    ELSE LET sub == allDescendantPackages(tree, Head(children))
         IN IF sub.thrown THEN sub
            ELSE WalkChildren(tree, Tail(children), Dedup(acc \o sub.value))

allDescendantPackages(tree, p) ==
    LET over == LoopOver(tree, p)
    IN IF ~over.iterable THEN Throw
       ELSE LET loop == WalkChildren(tree, over.items, <<>>)
            IN IF loop.thrown THEN loop ELSE Return(<<p>> \o loop.value)

-----------------------------------------------------------------------------
(* processPythonReqsDiffOutput *)

\* String.prototype.includes
Includes(s, p) == IndexOf(s, p) > 0

RECURSIVE SplitOn(_, _)
\* String.prototype.split with a separator of several characters
SplitOn(s, sep) ==
    LET i == IndexOf(s, sep)
    IN IF i = 0 THEN <<s>>
       ELSE <<SubSeq(s, 1, i - 1)>> \o SplitOn(SubSeq(s, i + Len(sep), Len(s)), sep)

\* { before: null, after: null }
NewChange == [before |-> null, after |-> null]

\* a callback that keeps the first version it saw for a package
DiffLineKeepFirst(res, line) ==
    IF ~Includes(line, <<"=", "=">>) THEN res
    ELSE LET isDeletion == StartsWith(line, <<"-">>)
             isAddition == StartsWith(line, <<"+">>)
         IN IF ~(isDeletion \/ isAddition) THEN res
            ELSE LET pieces == SplitOn(SubSeq(line, 2, Len(line)), <<"=", "=">>)
                     lib == ToLowerCase(pieces[1])
                     version == At(pieces, 1)
                     r1 == IF HasKey(res, lib) THEN res ELSE SetKey(res, lib, NewChange)
                 IN IF isDeletion
                    THEN IF r1[lib].before = null
                         THEN [r1 EXCEPT ![lib].before = version] ELSE r1
                    ELSE IF r1[lib].after = null
                         THEN [r1 EXCEPT ![lib].after = version] ELSE r1

\* the callback of lines.forEach: res is the result object so far
DiffLine(res, line) ==
    IF ~Includes(line, <<"=", "=">>) THEN res
    ELSE LET isDeletion == StartsWith(line, <<"-">>)
             isAddition == StartsWith(line, <<"+">>)
         IN IF ~(isDeletion \/ isAddition) THEN res
            ELSE LET pieces == SplitOn(SubSeq(line, 2, Len(line)), <<"=", "=">>)
                     lib == ToLowerCase(pieces[1])
                     version == At(pieces, 1)
                     r1 == IF HasKey(res, lib) THEN res ELSE SetKey(res, lib, NewChange)
                 IN IF isDeletion
                    THEN [r1 EXCEPT ![lib].before = version]
                    ELSE [r1 EXCEPT ![lib].after = version]

RECURSIVE DiffLines(_, _)
\* lines.forEach from the result res on
DiffLines(ls, res) ==
    IF ls = <<>> THEN res ELSE DiffLines(Tail(ls), DiffLine(res, Head(ls)))

processPythonReqsDiffOutput(raw) == DiffLines(Split(raw, "\n"), EmptyObject)

-----------------------------------------------------------------------------
(* getDockerTags *)

\* 'apache/superset'
REPO == <<"a", "p", "a", "c", "h", "e", "/", "s", "u", "p", "e", "r", "s", "e", "t">>

\* the length of the short commit hash: sha.slice(0, 7)
ShortShaLen == 7

\* s.slice(0, n)
SliceTo(s, n) == SubSeq(s, 1, IF Len(s) < n THEN Len(s) ELSE n)

\* parts.filter((part) => part): the parts that are not empty
IsPart(part) == Truthy(part)

\* makeDockerTag(parts)
makeDockerTag(parts) == REPO \o <<":">> \o Join(SelectSeq(parts, IsPart), <<"-">>)

\* tags.add(tag) on a Set kept in insertion order
AddTag(set, tag) == IF tag \in Range(set) THEN set ELSE Append(set, tag)

\* platform.replace('linux/', '').replace('64', '')
ShortBuildPlatform(platform) ==
    RemoveFirst(RemoveFirst(platform, <<"l", "i", "n", "u", "x", "/">>), <<"6", "4">>)

\* the chunks that follow the first part of every tag
TagChunks(pre, plats) ==
    (IF pre # <<"l", "e", "a", "n">> THEN <<pre>> ELSE <<>>)
    \o (IF Len(plats) = 1 /\ ShortBuildPlatform(plats[1]) # <<"a", "m", "d">>
        THEN <<ShortBuildPlatform(plats[1])>> ELSE <<>>)

\* buildContext === 'release' ? buildContextRef : null
CurrentRelease(context, ref) == IF context = <<"r", "e", "l", "e", "a", "s", "e">> THEN ref ELSE null

\* isLatest
IsLatest(context, ref, latest) ==
    IF Truthy(CurrentRelease(context, ref)) /\ Truthy(latest)
    THEN compareSemVer(latest, CurrentRelease(context, ref)) >= 0
    ELSE FALSE

getDockerTags(pre, plats, hash, context, ref, force, latest) ==
    LET tagChunks == TagChunks(pre, plats)
        t1 == AddTag(<<>>, makeDockerTag(<<hash>> \o tagChunks))
        t2 == AddTag(t1, makeDockerTag(<<SliceTo(hash, ShortShaLen)>> \o tagChunks))
        t3 == IF context = <<"r", "e", "l", "e", "a", "s", "e">>
              THEN AddTag(t2, makeDockerTag(<<ref>> \o tagChunks))
              ELSE IF context = <<"p", "u", "s", "h">> /\ ref = <<"m", "a", "s", "t", "e", "r">>
              THEN AddTag(t2, makeDockerTag(<<<<"m", "a", "s", "t", "e", "r">>>> \o tagChunks))
              ELSE IF context = <<"p", "u", "l", "l", "_", "r", "e", "q", "u", "e", "s", "t">>
              THEN AddTag(t2, makeDockerTag(<<<<"p", "r", "-">> \o ref>> \o tagChunks))
              ELSE t2
    IN IF IsLatest(context, ref, latest) \/ force
       THEN AddTag(t3, makeDockerTag(<<<<"l", "a", "t", "e", "s", "t">>>> \o tagChunks))
       ELSE t3

-----------------------------------------------------------------------------
(* Github.checkIfUserInTeam *)

\* the array that the literal [username, team] makes: a new object each time
\* the literal is evaluated, id telling one object from another
ArrayLiteral(id, username, team) == [id |-> id, items |-> <<username, team>>]

\* Map.prototype.get(key): the keys of a Map are compared with SameValueZero,
\* which for two objects asks whether they are the same object
MapGet(map, key) ==
    IF \E i \in DOMAIN map : map[i].key.id = key.id
    THEN LET i == CHOOSE j \in DOMAIN map : map[j].key.id = key.id
         IN [found |-> TRUE, value |-> map[i].value]
    ELSE [found |-> FALSE, value |-> FALSE]

\* Map.prototype.set(key, value)
MapSet(map, key, value) ==
    IF \E i \in DOMAIN map : map[i].key.id = key.id
    THEN [i \in DOMAIN map |->
             IF map[i].key.id = key.id THEN [key |-> map[i].key, value |-> value]
             ELSE map[i]]
    ELSE Append(map, [key |-> key, value |-> value])

\* the request teams.getMembershipForUserInOrg({org, team_slug, username})
MembershipRequest(username, team) ==
    LET parts == Split(team, "/")
    IN [api |-> "teams.getMembershipForUserInOrg", org |-> At(parts, 0),
        team_slug |-> At(parts, 1), username |-> username]

\* checkIfUserInTeam(username, team) on an instance whose cache is `cache`,
\* `arrays` array literals having been evaluated before, `state` being what
\* GitHub answers for the membership ("none" when it has no such member and
\* the wrapped request gives no response): the value returned, the cache left
\* and the requests sent
checkIfUserInTeam(cache, arrays, username, team, state) ==
    LET cached == MapGet(cache, ArrayLiteral(arrays + 1, username, team))
    IN IF cached.found
       THEN [returned |-> cached.value, cache |-> cache, requests |-> <<>>,
             arrays |-> arrays + 1]
       ELSE LET isInTeam == (state = "active")
            IN [returned |-> isInTeam,
                cache |-> MapSet(cache, ArrayLiteral(arrays + 2, username, team), isInTeam),
                requests |-> <<MembershipRequest(username, team)>>,
                arrays |-> arrays + 2]

-----------------------------------------------------------------------------
(* Github.getSubPackageTree *)

\* const reqsFiles
reqsFiles == <<"requirements/base.txt", "requirements/development.txt">>

\* #packageTree as the class declares it: undefined
NoPackageTree == [cached |-> FALSE, tree |-> EmptyObject]

RECURSIVE ReadReqsFiles(_, _, _, _)
\* the loop of getSubPackageTree over the files that are left, acc being
\* subPackages so far; the files other than base.txt are skipped with onlyBase
ReadReqsFiles(files, onlyBase, data, acc) ==
    IF files = <<>> THEN acc
    ELSE IF onlyBase /\ Head(files) # "requirements/base.txt"
         THEN ReadReqsFiles(Tail(files), onlyBase, data, acc)
         ELSE ReadReqsFiles(Tail(files), onlyBase, data,
                  mergeParsedRequirementsTree(acc,
                      parsePinnedRequirementsTree(data[Head(files)])))

\* getSubPackageTree({onlyBase}) on an instance whose #packageTree is `cache`,
\* the files holding `data`: the graph returned and the field left
getSubPackageTree(cache, onlyBase, data) ==
    IF cache.cached
    THEN [returned |-> cache.tree, packageTree |-> cache]
    ELSE LET read == ReadReqsFiles(reqsFiles, onlyBase, data, EmptyObject)
         IN [returned |-> read, packageTree |-> [cached |-> TRUE, tree |-> read]]

-----------------------------------------------------------------------------
(* Github.syncLabels *)

\* the emoji of the label prefixes, one element standing for the two UTF-16
\* code units of an emoji; the label emoji is followed by a variation selector
Ship == "U+1F6A2"
Cherry == "U+1F352"
Dart == "U+1F3AF"
LabelTag == "U+1F3F7"
VariationSelector == "U+FE0F"

\* const prefixes
prefixes == {<<Ship>>, <<Cherry>>, <<Dart>>, <<LabelTag, VariationSelector>>}

\* COMMITTER_TEAM of metadata.js: an organisation and a team slug
COMMITTER_TEAM == <<"o", "/", "c">>

\* a test that takes every label for one that has a prefix
HasPrefixAlways(label) == TRUE

\* prefixes.some((s) => typeof (label) === 'string' && label.startsWith(s)),
\* the labels being strings
HasPrefix(label) == \E s \in prefixes : StartsWith(label, s)

\* Array.prototype.filter with the test "is not in list"
FilterNotIn(arr, list) ==
    LET test(x) == x \notin Range(list) IN SelectSeq(arr, test)

\* the requests of the REST client that syncLabels sends for issue prId
ListLabelsRequest == [api |-> "issues.listLabelsOnIssue", arg |-> <<>>]
AddLabelsRequest(labels) == [api |-> "issues.addLabels", arg |-> labels]
RemoveLabelRequest(name) == [api |-> "issues.removeLabel", arg |-> <<name>>]

\* the labels of the issue once GitHub has served a request: addLabels adds
\* the labels that the issue has not, removeLabel takes one label away
Served(onIssue, request) ==
    IF request.api = "issues.addLabels"
    THEN onIssue \o FilterNotIn(request.arg, onIssue)
    ELSE IF request.api = "issues.removeLabel"
    THEN FilterNotIn(onIssue, request.arg)
    ELSE onIssue

RECURSIVE ServedAll(_, _)
ServedAll(onIssue, reqs) ==
    IF reqs = <<>> THEN onIssue
    ELSE ServedAll(Served(onIssue, Head(reqs)), Tail(reqs))

\* syncLabels({labels, prId, actor, dryRun, existingLabels}), the issue having
\* the labels onIssue; cache, arrays and state are those of checkIfUserInTeam:
\* the cache left and the requests sent, in order
syncLabels(cache, arrays, state, labels, actor, dryRun, existingLabels, onIssue) ==
    LET check == IF Truthy(actor)
                 THEN checkIfUserInTeam(cache, arrays, actor, COMMITTER_TEAM, state)
                 ELSE [returned |-> TRUE, cache |-> cache, requests |-> <<>>,
                       arrays |-> arrays]
        hasPerm == check.returned
        listed == existingLabels = null
        targetLabels == IF listed THEN onIssue ELSE existingLabels
        existingPrefixLabels == SelectSeq(targetLabels, HasPrefix)
        labelsToAdd == FilterNotIn(labels, existingPrefixLabels)
        labelsToRemove == FilterNotIn(existingPrefixLabels, labels)
        list == IF listed THEN <<ListLabelsRequest>> ELSE <<>>
        add == IF Len(labelsToAdd) > 0 /\ ~dryRun
               THEN <<AddLabelsRequest(labelsToAdd)>> ELSE <<>>
        remove == IF Len(labelsToRemove) > 0 /\ ~dryRun
                  THEN [i \in DOMAIN labelsToRemove |->
                           RemoveLabelRequest(labelsToRemove[i])]
                  ELSE <<>>
    IN IF ~hasPerm
       THEN [cache |-> check.cache, requests |-> check.requests]
       ELSE [cache |-> check.cache,
             requests |-> check.requests \o list \o add \o remove]

-----------------------------------------------------------------------------
(* Github.createBumpLibPullRequest *)

\* the depth of nested calls at which the engine raises a RangeError
StackLimit == 4

\* a shell command, a request of the REST client or a call that leaves
\* something behind, with what tells it from the others of its kind
Command(api, arg) == [api |-> api, arg |-> arg]

\* an exception of the code between two commands
ThrowOf(error) == Command("throw", error)

\* const { before = null, after = null } = libsBeforeAfter[lib] || {}
ChangeOf(libsBeforeAfter, lib) ==
    IF HasKey(libsBeforeAfter, lib) THEN libsBeforeAfter[lib] ELSE NewChange

\* a test that takes every package for a changed one
IsChangedAlways(change) == TRUE

\* before !== after
IsChanged(change) == change.before # change.after

\* '  '.repeat(level)
Indent(level) == [i \in 1..(2 * level) |-> " "]

RECURSIVE recurseVias(_, _, _)
RECURSIVE RecurseEach(_, _, _)

\* tree[library].vias.forEach((child) => recurseVias(child, level + 1)) over
\* the children that are left: what they add to depTree
RecurseEach(tree, children, level) ==
    IF children = <<>> THEN [thrown |-> "none", depTree |-> <<>>]
    ELSE LET sub == recurseVias(tree, Head(children), level)
         IN IF sub.thrown # "none" THEN sub
            ELSE LET rest == RecurseEach(tree, Tail(children), level)
                 IN [thrown |-> rest.thrown, depTree |-> sub.depTree \o rest.depTree]

\* recurseVias(library, level): the line of the library is added to depTree,
\* then the node of the library is read, a TypeError when the tree has none,
\* and the vias are rendered one level deeper
recurseVias(tree, library, level) ==
    IF level > StackLimit THEN [thrown |-> "RangeError", depTree |-> <<>>]
    ELSE LET line == Indent(level) \o library \o <<"\n">>
         IN IF ~HasKey(tree, library) THEN [thrown |-> "TypeError", depTree |-> line]
            ELSE LET below == RecurseEach(tree, tree[library].vias, level + 1)
                 IN [thrown |-> below.thrown, depTree |-> line \o below.depTree]

\* resp.data.html_url of the pull request created
HtmlUrl == <<"u", "r", "l">>

\* the commit message, which is the title of the pull request: package, before
\* and after, or the package alone for the message about subpackages
CommitMessage(lib, change) ==
    IF change.before = null \/ change.before = change.after
    THEN <<lib>> ELSE <<lib, change.before, change.after>>

\* the steps createBumpLibPullRequest({pythonPackage, dryRun, useCurrentRepo,
\* includeSubpackages}) takes, in order, when none of its commands fails:
\* walk is what allDescendantPackages gives, or the package alone,
\* libsBeforeAfter what processPythonReqsDiffOutput makes of git diff, render
\* what recurseVias gives for the package, prs how many open pull requests the
\* branch has. An exception of the code is a step at which the call ends.
\* pip-compile-multi runs in a try block that logs, and fixReqsFile runs no
\* command and catches its errors.
BumpSteps(walk, libsBeforeAfter, render, prs, pythonPackage, dryRun, useCurrentRepo, includeSubpackages) ==
    LET prepare ==
            IF ~useCurrentRepo
            THEN <<Command("fs.mkdtempSync", <<>>), Command("git clone", <<>>)>>
            ELSE <<Command("git checkout master", <<>>),
                   Command("git reset --hard", <<>>),
                   Command("git clean -f", <<>>)>>
        list == IF includeSubpackages
                THEN <<Command("getSubPackageTree", <<>>)>> ELSE <<>>
        pythonPackages == walk.value
        bump == [i \in DOMAIN pythonPackages |->
                    Command("pip-compile-multi", pythonPackages[i])]
        hasChanges ==
            \E i \in DOMAIN pythonPackages :
                IsChanged(ChangeOf(libsBeforeAfter, pythonPackages[i]))
        lib == pythonPackage
        message == CommitMessage(lib, ChangeOf(libsBeforeAfter, lib))
        commit == <<Command("git checkout -b", lib), Command("git add", <<>>),
                    Command("git commit", message)>>
        draw == <<Command("getSubPackageTree", <<>>),
                  Command("recurseVias", render.depTree)>>
        create == <<Command("pulls.create", message),
                    Command("issues.addLabels", <<"supersetbot">>),
                    Command("pulls.update", <<"closed">>),
                    Command("pulls.update", <<"open">>),
                    Command("return", HtmlUrl)>>
        publish ==
            IF dryRun THEN <<>>
            ELSE <<Command("git push", lib), Command("pulls.list", lib)>>
                 \o (IF prs = 0 THEN create ELSE <<>>)
        cleanup ==
            (IF ~useCurrentRepo THEN <<Command("fs.rmSync", <<>>)>> ELSE <<>>)
            \o <<Command("return", null)>>
        changed ==
            IF ~hasChanges THEN <<>>
            ELSE commit \o draw
                 \o (IF render.thrown # "none" THEN <<ThrowOf(render.thrown)>>
                     ELSE publish)
    IN prepare \o list
       \o (IF walk.thrown THEN <<ThrowOf("TypeError")>>
           ELSE bump \o <<Command("git diff", <<>>)>> \o changed \o cleanup)

\* where a call that takes these steps ends: at the first step that throws
\* (the command that fails, or an exception of the code) or returns
LastStep(steps, fails) ==
    LET ends == {i \in DOMAIN steps : steps[i].api \in {fails, "throw", "return"}}
    IN CHOOSE i \in ends : \A j \in ends : i <= j

\* the steps that a call takes
StepsTaken(steps, fails) == SubSeq(steps, 1, LastStep(steps, fails))

\* the steps of a list that are of one kind
StepsOf(steps, api) == {i \in DOMAIN steps : steps[i].api = api}

\* what a call that took the steps `taken` leaves: what is thrown or returned,
\* the commands and requests in order, the field #packageTree (read is what
\* getSubPackageTree gave), the temporary directory and the tree rendered
BumpOutcome(taken, cache, read) ==
    [thrown |-> IF taken[Len(taken)].api = "throw" THEN taken[Len(taken)].arg
                ELSE IF taken[Len(taken)].api = "return" THEN "none" ELSE "Error",
     returned |-> IF taken[Len(taken)].api = "return"
                  THEN taken[Len(taken)].arg ELSE null,
     requests |-> SelectSeq(taken, LAMBDA c : c.api \notin {"throw", "return"}),
     packageTree |->
         IF StepsOf(taken, "getSubPackageTree") = {} THEN cache ELSE read.packageTree,
     tmpDir |-> IF StepsOf(taken, "fs.rmSync") # {} THEN "removed"
                ELSE IF StepsOf(taken, "fs.mkdtempSync") # {} THEN "exists"
                ELSE "none",
     rendering |-> StepsOf(taken, "recurseVias") # {},
     depTree |-> IF StepsOf(taken, "recurseVias") = {}
                    \/ taken[Len(taken)].api = "throw"
                 THEN <<>>
                 ELSE taken[CHOOSE i \in StepsOf(taken, "recurseVias") : TRUE].arg]

\* the call once the graph is known: read is what getSubPackageTree() gives,
\* in allDescendantPackages and again before recurseVias, where it returns
\* the field that the first call set
BumpOnTree(cache, read, libsBeforeAfter, fails, prs, pythonPackage, dryRun, useCurrentRepo, includeSubpackages) ==
    BumpOutcome(
        StepsTaken(
            BumpSteps(IF includeSubpackages
                      THEN allDescendantPackages(read.returned, pythonPackage)
                      ELSE Return(<<pythonPackage>>),
                      libsBeforeAfter,
                      recurseVias(read.returned, pythonPackage, 0),
                      prs, pythonPackage, dryRun, useCurrentRepo, includeSubpackages),
            fails),
        cache, read)

\* createBumpLibPullRequest({pythonPackage, dryRun, useCurrentRepo,
\* includeSubpackages}) on an instance whose #packageTree is `cache`, the
\* requirements files holding `data`, git diff printing `diff`, the command
\* `fails` failing
createBumpLibPullRequest(cache, data, diff, fails, prs, pythonPackage, dryRun, useCurrentRepo, includeSubpackages) ==
    BumpOnTree(cache, getSubPackageTree(cache, FALSE, data),
               processPythonReqsDiffOutput(diff), fails, prs, pythonPackage,
               dryRun, useCurrentRepo, includeSubpackages)

-----------------------------------------------------------------------------
(* Objects and arrays in memory *)

\* A reference to an object or an array: the one made for the graph named
\* `of`, at obj[key][field]. The graph object has key <<>> and field "graph",
\* the node of a key has field "node", the lists have "deps" and "vias".
Ref(of, key, field) == [of |-> of, key |-> key, field |-> field]

GraphRef(of) == Ref(of, <<>>, "graph")

\* memory that holds nothing
EmptyHeap == << >>

\* memory h after the cells have been written
Store(h, cells) ==
    [r \in DOMAIN h \cup DOMAIN cells |-> IF r \in DOMAIN cells THEN cells[r] ELSE h[r]]

\* the cells that make up graph g: the graph object (key -> node), one node
\* per key (its version, and the references of its lists) and one array per
\* list, the array of g[key][field] being at arr[key][field]
GraphCells(of, g, arr) ==
    LET graphCell == [k \in DOMAIN g |-> Ref(of, k, "node")]
        nodeCell(k) ==
            [f \in DOMAIN g[k] |-> IF f = "version" THEN g[k][f] ELSE arr[k][f]]
        refs ==
            {GraphRef(of)} \cup {Ref(of, k, "node") : k \in DOMAIN g}
            \cup UNION {{arr[k][f] : f \in DOMAIN g[k] \ {"version"}} : k \in DOMAIN g}
    IN [r \in refs |->
           IF r.field = "graph" THEN graphCell
           ELSE IF r.field = "node" THEN nodeCell(r.key)
           ELSE g[r.key][r.field]]

\* an argument as its caller built it: every list is an array of its own
ArgumentCells(of, g) ==
    GraphCells(of, g, [k \in DOMAIN g |-> [f \in {"deps", "vias"} |-> Ref(of, k, f)]])

\* the graph that the graph object at reference g holds
GraphAt(h, g) ==
    [k \in DOMAIN h[g] |->
        LET node == h[h[g][k]]
        IN [f \in DOMAIN node |-> IF f = "version" THEN node[f] ELSE h[node[f]]]]

\* a merge that extends the lists of its first argument in place
ArrayOfFirst(res, first, key, field) == Ref(first, key, field)

\* [...new Set(...)] makes a new array for merged[key][field]
NewArray(res, first, key, field) == Ref(res, key, field)

\* mergeParsedRequirementsTree(first, second) in memory: the two graphs are
\* read, and the result is built as a new object with a new node per key
MergeInMemory(h, first, second, res) ==
    LET value == mergeParsedRequirementsTree(GraphAt(h, GraphRef(first)),
                                             GraphAt(h, GraphRef(second)))
    IN Store(h, GraphCells(res, value,
                [k \in DOMAIN value |->
                    [f \in {"deps", "vias"} |-> NewArray(res, first, k, f)]]))

-----------------------------------------------------------------------------
(* Inputs of compareSemVer *)

\* how many components beyond SemVerParts a version string may have
MaxExtraParts == 1

\* integer components: with a leading zero, with two digits
NumericParts == {<<"1">>, <<"0", "1">>, <<"2">>, <<"1", "0">>}

\* components of the strings of any length: a number, empty, not a number
LooseParts == {<<"1">>, <<>>, <<"a">>}

\* the strings of exactly n components drawn from parts
VersionsOf(parts, n) == {Join(cs, <<".">>) : cs \in [1..n -> parts]}

\* well-formed versions: three numeric components
Triples == VersionsOf(NumericParts, SemVerParts)

\* malformed versions: too few or too many components, non-numeric components
LooseVersions ==
    UNION {VersionsOf(LooseParts, n) : n \in 1..(SemVerParts + MaxExtraParts)}

Versions == Triples \cup LooseVersions

\* numeric components for the strings that are compared three by three
OrderParts == {<<"1">>, <<"0", "1">>, <<"2">>}
ShortParts == {<<"1">>, <<"2">>}

\* numeric versions of one component and more, and of three components with
\* leading zeros
OrderVersions ==
    VersionsOf(OrderParts, SemVerParts)
    \cup UNION {VersionsOf(ShortParts, n) : n \in 1..(SemVerParts + MaxExtraParts)}

-----------------------------------------------------------------------------
(* Inputs of parsePinnedRequirementsTree *)

\* the most lines a text has
MaxLines == 3

\* 'a==1': a pin
LinePinA1 == <<"a", "=", "=", "1">>
\* 'b==2': a pin of another package
LinePinB2 == <<"b", "=", "=", "2">>
\* 'A==2': a pin of a again, in upper case, with another version
LinePinUpperA2 == <<"A", "=", "=", "2">>
\* 'a==': a pin without a version
LinePinANoVersion == <<"a", "=", "=">>
\* ' # via b': an inline via annotation
LineViaB == <<" ", "#", " ", "v", "i", "a", " ", "b">>
\* ' # via': the first line of a block-style via
LineViaHeader == <<" ", "#", " ", "v", "i", "a">>
\* ' #  c': a continuation line of a block-style via
LineContC == <<" ", "#", " ", " ", "c">>
\* '# b': a comment that is not indented
LineBanner == <<"#", " ", "b">>
\* ' # via -r f': an inline via that names a requirements file
LineViaDashR == <<" ", "#", " ", "v", "i", "a", " ", "-", "r", " ", "f">>
\* ' #  -r f': a continuation line that names a requirements file
LineContDashR == <<" ", "#", " ", " ", "-", "r", " ", "f">>
\* '-e c': an editable install
LineEditable == <<"-", "e", " ", "c">>
\* ' ': a line of white space
LineBlank == <<" ">>
\* '--i c': an option line
LineOption == <<"-", "-", "i", " ", "c">>
\* 'c': a bare token
LineBare == <<"c">>

SampleLines ==
    {LinePinA1, LinePinB2, LinePinUpperA2, LinePinANoVersion,
     LineViaB, LineViaHeader, LineContC, LineBanner,
     LineViaDashR, LineContDashR, LineEditable, LineBlank,
     LineOption, LineBare}

\* the texts of at most n lines drawn from ls
TextsOf(ls, n) ==
    UNION {{Join(t, <<"\n">>) : t \in [1..k -> ls]} : k \in 0..n}

Texts == TextsOf(SampleLines, MaxLines)

\* ' # # b': an annotation with a second '#'
LineHashHashB == <<" ", "#", " ", "#", " ", "b">>
\* ' # via #c#': an inline via whose name is between two '#'
LineViaHashC == <<" ", "#", " ", "v", "i", "a", " ", "#", "c", "#">>
\* ' # via  b ': an inline via with white space around the name
LineViaSpacesB == <<" ", "#", " ", "v", "i", "a", " ", " ", "b", " ">>

\* the lines of the texts that are made of pins and annotations
ViaSampleLines ==
    {LinePinA1, LineViaB, LineContC, LineViaHeader, LineHashHashB, LineViaHashC,
     LineViaSpacesB}

\* the texts of at most n lines of pins and annotations
ViaTextsOf(n) == TextsOf(ViaSampleLines, n)

-----------------------------------------------------------------------------
(* Inputs of mergeParsedRequirementsTree *)

\* the longest deps or vias list of an argument
MaxListLen == 2

ListNames == {<<"b">>, <<"c">>}

\* the lists of at most MaxListLen names, with repetitions
Lists == UNION {[1..k -> ListNames] : k \in 0..MaxListLen}

\* nodes as the parser builds them, and nodes with fields missing as callers
\* may build them
NodeSamples ==
    {[deps |-> d, vias |-> v, version |-> x] :
        d \in Lists, v \in {<<>>, << <<"c">> >>}, x \in {null, <<"1">>}}
    \cup {[deps |-> d] : d \in Lists}
    \cup {[vias |-> v] : v \in Lists}
    \cup {[version |-> x] : x \in {<<>>, <<"2">>}}

\* graphs of no key, of one key and of two keys
GraphSamples ==
    {EmptyObject}
    \cup {SetKey(EmptyObject, k, n) : k \in {<<"a">>, <<"b">>}, n \in NodeSamples}
    \cup {SetKey(SetKey(EmptyObject, <<"a">>, [deps |-> << <<"b">> >>]), <<"b">>, n) :
            n \in {[vias |-> << <<"a">> >>], [deps |-> << <<"c">> >>, version |-> <<"1">>]}}

\* nodes of the graphs that are merged three by three: with and without a
\* version, with lists that overlap
AssocNodes ==
    {[deps |-> d, version |-> x] : d \in Lists, x \in {null, <<"1">>}}
    \cup {[vias |-> << <<"c">> >>, version |-> <<"2">>],
          [version |-> <<>>],
          [vias |-> << <<"b">>, <<"c">> >>]}

AssocGraphs ==
    {EmptyObject}
    \cup {SetKey(EmptyObject, <<"a">>, n) : n \in AssocNodes}
    \cup {SetKey(EmptyObject, <<"b">>, [deps |-> << <<"c">> >>]),
          SetKey(SetKey(EmptyObject, <<"a">>, [deps |-> << <<"c">> >>, version |-> <<"2">>]),
                 <<"b">>, [vias |-> << <<"a">> >>, version |-> null])}

-----------------------------------------------------------------------------
(* Inputs of getSubPackageTree *)

\* how many requirements files are merged into one graph
MaxFiles == 2

\* the most lines a requirements file has
MaxFileLines == 3

\* the lines of the requirements files
FileLines == {LinePinA1, LinePinB2, LineViaB, LineContC, LinePinUpperA2}

\* the graphs parsed from the texts a requirements file may hold
FileGraphs == {parsePinnedRequirementsTree(t) : t \in TextsOf(FileLines, MaxFileLines)}

-----------------------------------------------------------------------------
(* Inputs of processPythonReqsDiffOutput *)

\* the most lines a diff has
MaxDiffLines == 3

\* '-a==1': a removal
DiffRemoveA1 == <<"-", "a", "=", "=", "1">>
\* '+a==2': an addition
DiffAddA2 == <<"+", "a", "=", "=", "2">>
\* '-A==3': a removal of a in upper case
DiffRemoveUpperA3 == <<"-", "A", "=", "=", "3">>
\* '+b==': an addition without a version
DiffAddBNoVersion == <<"+", "b", "=", "=">>
\* '-b': a removal without '=='
DiffRemoveB == <<"-", "b">>
\* ' a==9': a context line
DiffContextA9 == <<" ", "a", "=", "=", "9">>
\* 'diff a==1': a diff line that contains '=='
DiffGit == <<"d", "i", "f", "f", " ", "a", "=", "=", "1">>
\* 'index a==1': an index line that contains '=='
DiffIndex == <<"i", "n", "d", "e", "x", " ", "a", "=", "=", "1">>
\* '@@ a==1': a hunk header that contains '=='
DiffHunk == <<"@", "@", " ", "a", "=", "=", "1">>
\* '--- a/f': the header of the old file
DiffOldFile == <<"-", "-", "-", " ", "a", "/", "f">>
\* '+++ b/f': the header of the new file
DiffNewFile == <<"+", "+", "+", " ", "b", "/", "f">>
\* '--- a/f==1': the header of an old file whose name contains '=='
DiffOldFileEq == <<"-", "-", "-", " ", "a", "/", "f", "=", "=", "1">>
\* '+++ b/f==1': the header of a new file whose name contains '=='
DiffNewFileEq == <<"+", "+", "+", " ", "b", "/", "f", "=", "=", "1">>

DiffSampleLines ==
    {DiffRemoveA1, DiffAddA2, DiffRemoveUpperA3, DiffAddBNoVersion, DiffRemoveB,
     DiffContextA9, DiffGit, DiffIndex, DiffHunk, DiffOldFile, DiffNewFile,
     DiffOldFileEq, DiffNewFileEq}

\* the diffs of at most n lines
DiffsOf(n) == TextsOf(DiffSampleLines, n)

-----------------------------------------------------------------------------
(* Inputs of getDockerTags *)

Presets == {<<"l", "e", "a", "n">>, <<"d", "e", "v">>}

PlatformLists ==
    {<<<<"l", "i", "n", "u", "x", "/", "a", "r", "m", "6", "4">>>>, <<<<"l", "i", "n", "u", "x", "/", "a", "m", "d", "6", "4">>>>, <<<<"l", "i", "n", "u", "x", "/", "a", "m", "d", "6", "4">>, <<"l", "i", "n", "u", "x", "/", "a", "r", "m", "6", "4">>>>}

\* a full commit hash, and one shorter than its short form
Shas == {<<"2", "2", "e", "7", "c", "6", "0", "2", "b">>, <<"2", "2", "e">>}

BuildContexts == {<<"r", "e", "l", "e", "a", "s", "e">>, <<"p", "u", "s", "h">>, <<"p", "u", "l", "l", "_", "r", "e", "q", "u", "e", "s", "t">>}

\* releases older than, equal to and newer than the latest one; a branch; the
\* number of a pull request
BuildContextRefs == {<<"2", ".", "1", ".", "0">>, <<"2", ".", "1", ".", "1">>, <<"2", ".", "2", ".", "0">>, <<"m", "a", "s", "t", "e", "r">>, <<"6", "6", "6">>}

LatestReleases == {null, <<"2", ".", "1", ".", "1">>}

\* the packages that allDescendantPackages is asked for: those of the files,
\* and one that no file names
WalkStarts == {<<"a">>, <<"b">>, <<"c">>, <<"z">>}

-----------------------------------------------------------------------------
(* Inputs of the Github instance *)

\* how many calls are made on one instance
MaxCalls == 3

\* the users and the teams asked about
Users == {<<"u">>, <<"v">>}
Teams == {<<"o", "/", "c">>, <<"o", "/", "t">>}

\* what GitHub knows of a membership
MembershipStates == {"active", "pending", "none"}

\* 'c==3': a pin of a third package
LinePinC3 == <<"c", "=", "=", "3">>
\* ' # via a': an inline via annotation that names a
LineViaA == <<" ", "#", " ", "v", "i", "a", " ", "a">>

\* the most lines a requirements file of the working directory has
MaxReqsLines == 2

\* the lines of requirements/base.txt and of requirements/development.txt
BaseLines == {LinePinA1, LinePinB2, LineViaA, LineViaB}
DevLines == {LinePinC3, LinePinUpperA2, LineViaA}

\* what the two files may hold, with at most n lines each
ReqsDataOf(n) ==
    {<<b, d>> : b \in TextsOf(BaseLines, n), d \in TextsOf(DevLines, n)}

\* the requirements files as a function of their names
FilesOf(data) ==
    [f \in Range(reqsFiles) |-> IF f = reqsFiles[1] THEN data[1] ELSE data[2]]

\* the most labels a pull request or a list of target labels has
MaxLabels == 2

\* labels with a prefix, a label whose emoji has no variation selector, and
\* a label without emoji
LabelShip1 == <<Ship, " ", "1">>
LabelShip2 == <<Ship, " ", "2">>
LabelTagged == <<LabelTag, VariationSelector, " ", "1">>
LabelTagBare == <<LabelTag, " ", "1">>
LabelBug == <<"b", "u", "g">>
SampleLabels == {LabelShip1, LabelShip2, LabelTagged, LabelTagBare, LabelBug}

\* the lists of at most n labels, no label twice
LabelListsOf(n) ==
    UNION {{l \in [1..k -> SampleLabels] : \A i, j \in 1..k : l[i] = l[j] => i = j}
           : k \in 0..n}

\* who asks for the labels: nobody, or a user
Actors == {null} \cup Users

\* '+a==1': an addition of a with the version it had
DiffAddA1 == <<"+", "a", "=", "=", "1">>
\* '-b==2' and '+b==3': a change of b
DiffRemoveB2 == <<"-", "b", "=", "=", "2">>
DiffAddB3 == <<"+", "b", "=", "=", "3">>

\* the lines of the diffs of a bump
BumpDiffLines == {DiffRemoveA1, DiffAddA1, DiffAddA2, DiffRemoveB2}

\* the diffs of a bump, of at most n lines
BumpDiffsOf(n) == TextsOf(BumpDiffLines, n)

\* a diff in which a and b change
DiffOfAAndB == Join(<<DiffRemoveA1, DiffAddA2, DiffRemoveB2, DiffAddB3>>, <<"\n">>)

\* requirements files in which b needs a
ReqsOfAViaB == <<Join(<<LinePinA1, LineViaB, LinePinB2>>, <<"\n">>), LinePinC3>>

\* a development.txt in which c needs a
DevOfAViaC == Join(<<LinePinA1, <<" ", "#", " ", "v", "i", "a", " ", "c">> >>, <<"\n">>)

\* what the two files may hold in a bump: a base.txt of at most n lines, and a
\* development.txt that is empty or says that c needs a
BumpReqsOf(n) == {<<b, d>> : b \in TextsOf(BaseLines, n), d \in {<<>>, DevOfAViaC}}

\* the packages asked to be bumped: two of base.txt, and one of no file
BumpPackages == {<<"a">>, <<"b">>, <<"z">>}

\* the commands and requests of which one may fail
Failures ==
    {"git clone", "git checkout master", "git reset --hard", "git clean -f",
     "git diff", "git checkout -b", "git add", "git commit", "git push",
     "pulls.list", "pulls.create", "issues.addLabels", "pulls.update"}

-----------------------------------------------------------------------------
(* Specification *)

\* the arguments of the one call a behaviour makes to compareSemVer
VerInit ==
    /\ verA \in Versions
    /\ verB \in Versions
    /\ verResult = "none"

VerIdle ==
    /\ verA = <<>>
    /\ verB = <<>>
    /\ verResult = "none"

\* the text of the one call a behaviour makes to parsePinnedRequirementsTree
ParseInit ==
    /\ requirements \in Texts
    /\ lines = <<>>
    /\ lineNo = 0
    /\ depsObject = EmptyObject
    /\ currentDep = null
    /\ thrown = FALSE

ParseIdle ==
    /\ requirements = <<>>
    /\ lines = <<>>
    /\ lineNo = 0
    /\ depsObject = EmptyObject
    /\ currentDep = null
    /\ thrown = FALSE

\* the arguments of the one call a behaviour makes to
\* mergeParsedRequirementsTree
MergeInit ==
    /\ obj1 \in GraphSamples
    /\ obj2 \in GraphSamples
    /\ merged = EmptyObject
    /\ heap = Store(ArgumentCells("obj1", obj1), ArgumentCells("obj2", obj2))

MergeIdle ==
    /\ obj1 = EmptyObject
    /\ obj2 = EmptyObject
    /\ merged = EmptyObject
    /\ heap = EmptyHeap

\* the three graphs that a behaviour merges, as the loop of getSubPackageTree
\* merges the graphs of three files; memory is not followed here
AssocInit ==
    /\ obj1 \in AssocGraphs
    /\ obj2 \in AssocGraphs
    /\ obj3 \in AssocGraphs
    /\ merged = EmptyObject
    /\ regrouped = EmptyObject
    /\ heap = EmptyHeap

\* no third graph
AssocIdle ==
    /\ obj3 = EmptyObject
    /\ regrouped = EmptyObject

\* allDescendantPackages is not called
WalkIdle ==
    /\ parent = <<>>
    /\ descendants = <<>>
    /\ walkError = FALSE

\* the diff of the one call a behaviour makes to processPythonReqsDiffOutput
DiffInit ==
    /\ rawOutput \in DiffsOf(MaxDiffLines)
    /\ result = EmptyObject

\* processPythonReqsDiffOutput is not called
DiffIdle ==
    /\ rawOutput = <<>>
    /\ result = EmptyObject

\* the arguments of the one call a behaviour makes to getDockerTags
DockerInit ==
    /\ preset \in Presets
    /\ platforms \in PlatformLists
    /\ sha \in Shas
    /\ buildContext \in BuildContexts
    /\ buildContextRef \in BuildContextRefs
    /\ forceLatest \in BOOLEAN
    /\ latestRelease \in LatestReleases
    /\ tags = <<>>

\* getDockerTags is not called
DockerIdle ==
    /\ preset = <<>>
    /\ platforms = <<>>
    /\ sha = <<>>
    /\ buildContext = <<>>
    /\ buildContextRef = <<>>
    /\ forceLatest = FALSE
    /\ latestRelease = null
    /\ tags = <<>>

\* checkIfUserInTeam is not called
TeamIdle ==
    /\ userInTeamCache = <<>>
    /\ membership = <<>>

\* no call is made yet, no request is sent yet
LogInit ==
    /\ calls = <<>>
    /\ requests = <<>>

\* getSubPackageTree is not called
PackageTreeIdle ==
    /\ packageTree = NoPackageTree
    /\ reqsData = <<>>

\* syncLabels is not called
LabelsIdle == issueLabels = <<>>

\* createBumpLibPullRequest is not called
BumpIdle ==
    /\ tmpDir = "none"
    /\ rawDiff = <<>>
    /\ failing = "none"
    /\ existingPRs = 0

\* no Github instance is used
GithubIdle == TeamIdle /\ LogInit /\ PackageTreeIdle /\ LabelsIdle /\ BumpIdle

\* getSubPackageTree before its loop: let subPackages = {}
TreeInit ==
    /\ subPackages = EmptyObject
    /\ filesRead = 0

\* the call compareSemVer(verA, verB)
CompareSemVer ==
    /\ op = "init"
    /\ op' = "compareSemVer"
    /\ verResult' = compareSemVer(verA, verB)
    /\ UNCHANGED <<githubVars, verA, verB, parseVars, mergeVars, treeVars, assocVars, walkVars, diffVars, dockerVars>>

SemVerInit ==
    /\ op = "init"
    /\ GithubIdle
    /\ VerInit /\ ParseIdle /\ MergeIdle /\ TreeInit
    /\ AssocIdle /\ WalkIdle /\ DiffIdle /\ DockerIdle

SemVerNext == CompareSemVer

SemVerSpec == SemVerInit /\ [][SemVerNext]_vars

\* the same call on numeric versions only
SemVerOrderInit ==
    /\ op = "init"
    /\ GithubIdle
    /\ verA \in OrderVersions /\ verB \in OrderVersions /\ verResult = "none"
    /\ ParseIdle /\ MergeIdle /\ TreeInit
    /\ AssocIdle /\ WalkIdle /\ DiffIdle /\ DockerIdle

SemVerOrderSpec == SemVerOrderInit /\ [][SemVerNext]_vars

\* parsePinnedRequirementsTree(requirements) up to its loop: the lines are
\* split and filtered, the graph is empty, no package is current
ParseBegin ==
    /\ op = "init"
    /\ op' = "forEach"
    /\ lines' = Preprocess(requirements)
    /\ lineNo' = 1
    /\ depsObject' = EmptyObject
    /\ currentDep' = null
    /\ thrown' = FALSE
    /\ UNCHANGED <<githubVars, requirements, verVars, mergeVars, treeVars, assocVars, walkVars, diffVars, dockerVars>>

\* one call of the forEach callback, on lines[lineNo]
ParseLine ==
    /\ op = "forEach"
    /\ ~thrown
    /\ lineNo <= Len(lines)
    /\ LET st == ProcessLine([deps |-> depsObject, cur |-> currentDep,
                             thrown |-> thrown], lines[lineNo])
       IN /\ depsObject' = st.deps
          /\ currentDep' = st.cur
          /\ thrown' = st.thrown
    /\ lineNo' = lineNo + 1
    /\ UNCHANGED <<githubVars, op, requirements, lines, verVars, mergeVars, treeVars,
                   assocVars, walkVars, diffVars, dockerVars>>

\* the loop is over: depsObject is returned
ParseReturn ==
    /\ op = "forEach"
    /\ ~thrown
    /\ lineNo > Len(lines)
    /\ op' = "returned"
    /\ UNCHANGED <<githubVars, parseVars, verVars, mergeVars, treeVars, assocVars, walkVars, diffVars, dockerVars>>

ParseSpecInit ==
    /\ op = "init"
    /\ GithubIdle
    /\ ParseInit /\ VerIdle /\ MergeIdle /\ TreeInit
    /\ AssocIdle /\ WalkIdle /\ DiffIdle /\ DockerIdle

ParseNext == ParseBegin \/ ParseLine \/ ParseReturn

ParseSpec == ParseSpecInit /\ [][ParseNext]_vars

\* the same call on a text of pins and annotations
ParseViaInit ==
    /\ op = "init"
    /\ GithubIdle
    /\ requirements \in ViaTextsOf(MaxLines)
    /\ lines = <<>> /\ lineNo = 0
    /\ depsObject = EmptyObject /\ currentDep = null /\ thrown = FALSE
    /\ VerIdle /\ MergeIdle /\ TreeInit
    /\ AssocIdle /\ WalkIdle /\ DiffIdle /\ DockerIdle

ParseViaSpec == ParseViaInit /\ [][ParseNext]_vars

\* the call mergeParsedRequirementsTree(obj1, obj2)
Merge ==
    /\ op = "init"
    /\ op' = "merged"
    /\ merged' = mergeParsedRequirementsTree(obj1, obj2)
    /\ heap' = MergeInMemory(heap, "obj1", "obj2", "merged")
    /\ UNCHANGED <<githubVars, obj1, obj2, verVars, parseVars, treeVars, assocVars, walkVars,
                   diffVars, dockerVars>>

\* the result is merged again as the first argument, as the loop of
\* getSubPackageTree does with subPackages
MergeAgain ==
    /\ op = "merged"
    /\ op' = "remerged"
    /\ heap' = MergeInMemory(heap, "merged", "obj2", "merged2")
    /\ merged' = GraphAt(heap', GraphRef("merged2"))
    /\ UNCHANGED <<githubVars, obj1, obj2, verVars, parseVars, treeVars, assocVars, walkVars,
                   diffVars, dockerVars>>

MergeSpecInit ==
    /\ op = "init"
    /\ GithubIdle
    /\ MergeInit /\ VerIdle /\ ParseIdle /\ TreeInit
    /\ AssocIdle /\ WalkIdle /\ DiffIdle /\ DockerIdle

MergeNext == Merge \/ MergeAgain

\* the three graphs merged from the left, as the loop does, and from the right
MergeThree ==
    /\ op = "init"
    /\ op' = "merged3"
    /\ merged' = mergeParsedRequirementsTree(mergeParsedRequirementsTree(obj1, obj2), obj3)
    /\ regrouped' = mergeParsedRequirementsTree(obj1, mergeParsedRequirementsTree(obj2, obj3))
    /\ UNCHANGED <<githubVars, obj1, obj2, obj3, heap, verVars, parseVars, treeVars, walkVars,
                   diffVars, dockerVars>>

\* the call processPythonReqsDiffOutput(rawOutput)
ProcessPythonReqsDiffOutput ==
    /\ op = "init"
    /\ op' = "processed"
    /\ result' = processPythonReqsDiffOutput(rawOutput)
    /\ UNCHANGED <<githubVars, rawOutput, verVars, parseVars, mergeVars, treeVars, assocVars,
                   walkVars, dockerVars>>

DiffSpecInit ==
    /\ op = "init"
    /\ GithubIdle
    /\ DiffInit /\ VerIdle /\ ParseIdle /\ MergeIdle /\ TreeInit
    /\ AssocIdle /\ WalkIdle /\ DockerIdle

DiffNext == ProcessPythonReqsDiffOutput

DiffSpec == DiffSpecInit /\ [][DiffNext]_vars

\* the call getDockerTags({preset, platforms, sha, buildContext,
\* buildContextRef, forceLatest, latestRelease})
GetDockerTags ==
    /\ op = "init"
    /\ op' = "tagged"
    /\ tags' = getDockerTags(preset, platforms, sha, buildContext, buildContextRef,
                             forceLatest, latestRelease)
    /\ UNCHANGED <<githubVars, preset, platforms, sha, buildContext, buildContextRef,
                   forceLatest, latestRelease, verVars, parseVars, mergeVars,
                   treeVars, assocVars, walkVars, diffVars>>

DockerSpecInit ==
    /\ op = "init"
    /\ GithubIdle
    /\ DockerInit /\ VerIdle /\ ParseIdle /\ MergeIdle /\ TreeInit
    /\ AssocIdle /\ WalkIdle /\ DiffIdle

DockerNext == GetDockerTags

DockerSpec == DockerSpecInit /\ [][DockerNext]_vars

MergeAssocInit ==
    /\ op = "init"
    /\ GithubIdle
    /\ AssocInit /\ VerIdle /\ ParseIdle /\ TreeInit
    /\ WalkIdle /\ DiffIdle /\ DockerIdle

MergeAssocNext == MergeThree

MergeAssocSpec == MergeAssocInit /\ [][MergeAssocNext]_vars

MergeSpec == MergeSpecInit /\ [][MergeNext]_vars

\* one turn of the loop of getSubPackageTree: the next requirements file is
\* read and parsed, and its graph merged into subPackages
MergeFile ==
    /\ filesRead < MaxFiles
    /\ \E pinnedReqs \in FileGraphs :
           subPackages' = mergeParsedRequirementsTree(subPackages, pinnedReqs)
    /\ filesRead' = filesRead + 1
    /\ op' = "folded"
    /\ UNCHANGED <<githubVars, verVars, parseVars, mergeVars, assocVars, walkVars, diffVars, dockerVars>>

TreeSpecInit ==
    /\ op = "init"
    /\ GithubIdle
    /\ TreeInit /\ VerIdle /\ ParseIdle /\ MergeIdle
    /\ AssocIdle /\ WalkIdle /\ DiffIdle /\ DockerIdle

\* allDescendantPackages(parent), on the graph that getSubPackageTree
\* returns once all the files are merged
AllDescendantPackages ==
    /\ op = "folded"
    /\ filesRead = MaxFiles
    /\ op' = "walked"
    /\ \E p \in WalkStarts :
        /\ parent' = p
        /\ descendants' = allDescendantPackages(subPackages, p).value
        /\ walkError' = allDescendantPackages(subPackages, p).thrown
    /\ UNCHANGED <<githubVars, verVars, parseVars, mergeVars, treeVars, assocVars, diffVars,
                   dockerVars>>

TreeNext == MergeFile \/ AllDescendantPackages

TreeSpec == TreeSpecInit /\ [][TreeNext]_vars

\* a new instance: the constructor makes an empty Map
TeamInit ==
    /\ userInTeamCache = <<>>
    /\ membership \in [Users \X Teams -> MembershipStates]

\* the array literals evaluated by the calls made so far
ArraysMade == Len(calls) + Len(requests)

\* one call checkIfUserInTeam(username, team)
CheckIfUserInTeam ==
    /\ Len(calls) < MaxCalls
    /\ \E username \in Users, team \in Teams :
        LET out == checkIfUserInTeam(userInTeamCache, ArraysMade, username, team,
                                     membership[<<username, team>>])
        IN /\ userInTeamCache' = out.cache
           /\ requests' = requests \o out.requests
           /\ calls' = Append(calls, [method |-> "checkIfUserInTeam",
                                      username |-> username, team |-> team,
                                      returned |-> out.returned])
    /\ op' = "checked"
    /\ UNCHANGED <<membership, packageTreeVars, labelVars, bumpVars, verVars, parseVars, mergeVars, treeVars, assocVars,
                   walkVars, diffVars, dockerVars>>

TeamSpecInit ==
    /\ op = "init"
    /\ TeamInit /\ LogInit /\ PackageTreeIdle /\ LabelsIdle /\ BumpIdle
    /\ VerIdle /\ ParseIdle /\ MergeIdle /\ TreeInit
    /\ AssocIdle /\ WalkIdle /\ DiffIdle /\ DockerIdle

TeamNext == CheckIfUserInTeam

TeamSpec == TeamSpecInit /\ [][TeamNext]_vars

\* a new instance in a working directory that has the two requirements files
PackageTreeInit ==
    /\ packageTree = NoPackageTree
    /\ \E data \in ReqsDataOf(MaxReqsLines) : reqsData = FilesOf(data)

\* one call getSubPackageTree({onlyBase})
GetSubPackageTree ==
    /\ Len(calls) < MaxCalls
    /\ \E onlyBase \in BOOLEAN :
        LET out == getSubPackageTree(packageTree, onlyBase, reqsData)
        IN /\ packageTree' = out.packageTree
           /\ calls' = Append(calls, [method |-> "getSubPackageTree",
                                      onlyBase |-> onlyBase,
                                      returned |-> out.returned])
    /\ op' = "read"
    /\ UNCHANGED <<reqsData, requests, teamVars, labelVars, bumpVars, verVars, parseVars, mergeVars,
                   treeVars, assocVars, walkVars, diffVars, dockerVars>>

PackageTreeSpecInit ==
    /\ op = "init"
    /\ PackageTreeInit /\ LogInit /\ TeamIdle /\ LabelsIdle /\ BumpIdle
    /\ VerIdle /\ ParseIdle /\ MergeIdle /\ TreeInit
    /\ AssocIdle /\ WalkIdle /\ DiffIdle /\ DockerIdle

PackageTreeNext == GetSubPackageTree

PackageTreeSpec == PackageTreeSpecInit /\ [][PackageTreeNext]_vars

\* a pull request with its labels, and the membership of the committer team
LabelsInit ==
    /\ issueLabels \in LabelListsOf(MaxLabels)
    /\ userInTeamCache = <<>>
    /\ membership \in [Users \X {COMMITTER_TEAM} -> MembershipStates]

\* the call syncLabels({labels, prId, actor, dryRun, existingLabels}), the
\* caller passing the labels of the pull request or nothing
SyncLabels ==
    /\ op = "init"
    /\ op' = "synced"
    /\ \E labels \in LabelListsOf(MaxLabels), actor \in Actors, dryRun \in BOOLEAN,
          existingLabels \in {null, issueLabels} :
        LET state == IF actor = null THEN "none"
                     ELSE membership[<<actor, COMMITTER_TEAM>>]
            out == syncLabels(userInTeamCache, ArraysMade, state, labels, actor,
                              dryRun, existingLabels, issueLabels)
        IN /\ userInTeamCache' = out.cache
           /\ requests' = requests \o out.requests
           /\ issueLabels' = ServedAll(issueLabels, out.requests)
           /\ calls' = Append(calls, [method |-> "syncLabels", labels |-> labels,
                                      actor |-> actor, dryRun |-> dryRun,
                                      existingLabels |-> existingLabels,
                                      onIssue |-> issueLabels])
    /\ UNCHANGED <<membership, packageTreeVars, bumpVars, verVars, parseVars,
                   mergeVars, treeVars, assocVars, walkVars, diffVars, dockerVars>>

LabelsSpecInit ==
    /\ op = "init"
    /\ LabelsInit /\ LogInit /\ PackageTreeIdle /\ BumpIdle
    /\ VerIdle /\ ParseIdle /\ MergeIdle /\ TreeInit
    /\ AssocIdle /\ WalkIdle /\ DiffIdle /\ DockerIdle

LabelsNext == SyncLabels

LabelsSpec == LabelsSpecInit /\ [][LabelsNext]_vars

\* the world of a bump in which everything succeeds and a and b change,
\* whatever the requirements files hold
BumpTreeInit ==
    /\ \E data \in BumpReqsOf(MaxReqsLines) : reqsData = FilesOf(data)
    /\ rawDiff = DiffOfAAndB
    /\ failing = "none"
    /\ existingPRs = 0

\* the world of a bump in which everything succeeds, whatever git diff prints
BumpDiffInit ==
    /\ reqsData = FilesOf(ReqsOfAViaB)
    /\ rawDiff \in BumpDiffsOf(MaxDiffLines)
    /\ failing = "none"
    /\ existingPRs = 0

\* the world of a bump in which a command or a request may fail
BumpFailureInit ==
    /\ reqsData = FilesOf(ReqsOfAViaB)
    /\ rawDiff \in {<<>>, DiffOfAAndB}
    /\ failing \in Failures
    /\ existingPRs \in {0, 1}

\* a new instance, no temporary directory
BumpInit ==
    /\ packageTree = NoPackageTree
    /\ tmpDir = "none"
    /\ (BumpTreeInit \/ BumpDiffInit \/ BumpFailureInit)

\* the call createBumpLibPullRequest({pythonPackage, dryRun, useCurrentRepo,
\* includeSubpackages})
CreateBumpLibPullRequest ==
    /\ op = "init"
    /\ op' = "bumped"
    /\ \E pythonPackage \in BumpPackages, dryRun \in BOOLEAN,
          useCurrentRepo \in BOOLEAN, includeSubpackages \in BOOLEAN :
        LET out == createBumpLibPullRequest(packageTree, reqsData, rawDiff, failing,
                       existingPRs, pythonPackage, dryRun, useCurrentRepo,
                       includeSubpackages)
        IN calls' = Append(calls, [method |-> "createBumpLibPullRequest",
                                   pythonPackage |-> pythonPackage,
                                   dryRun |-> dryRun,
                                   useCurrentRepo |-> useCurrentRepo,
                                   includeSubpackages |-> includeSubpackages,
                                   outcome |-> out])
    /\ packageTree' = calls'[Len(calls')].outcome.packageTree
    /\ tmpDir' = calls'[Len(calls')].outcome.tmpDir
    /\ requests' = requests \o calls'[Len(calls')].outcome.requests
    /\ UNCHANGED <<reqsData, rawDiff, failing, existingPRs, teamVars, labelVars,
                   verVars, parseVars, mergeVars, treeVars, assocVars, walkVars,
                   diffVars, dockerVars>>

BumpSpecInit ==
    /\ op = "init"
    /\ BumpInit /\ LogInit /\ TeamIdle /\ LabelsIdle
    /\ VerIdle /\ ParseIdle /\ MergeIdle /\ TreeInit
    /\ AssocIdle /\ WalkIdle /\ DiffIdle /\ DockerIdle

BumpNext == CreateBumpLibPullRequest

BumpSpec == BumpSpecInit /\ [][BumpNext]_vars

-----------------------------------------------------------------------------
(* Properties of compareSemVer *)

Called == op = "compareSemVer"

\* the components of a version string, as strings
PartsOf(v) == Split(v, ".")

\* a component written as a non-negative integer: one or more decimal digits
IsIntegerPart(c) == c # <<>> /\ \A i \in 1..Len(c) : IsDigit(c[i])

\* exactly three dot-separated non-negative integer components
IsIntegerTriple(v) ==
    LET parts == PartsOf(v)
    IN /\ Len(parts) = SemVerParts
       /\ \A i \in 1..SemVerParts : IsIntegerPart(parts[i])

RECURSIVE StripZeros(_)
\* a string of digits without its leading zeros (the last digit is kept)
StripZeros(c) ==
    IF Len(c) > 1 /\ Head(c) = "0" THEN StripZeros(Tail(c)) ELSE c

RECURSIVE DigitsLess(_, _)
\* two digit strings of the same length, compared digit by digit
DigitsLess(c, d) ==
    IF c = <<>> THEN FALSE
    ELSE IF Head(c) # Head(d) THEN DigitValue(Head(c)) < DigitValue(Head(d))
    ELSE DigitsLess(Tail(c), Tail(d))

\* the integer written as c is less than the integer written as d, decided on
\* the numerals: without leading zeros the shorter numeral is the smaller one.
\* The empty component counts as the numeral 0.
Numeral(c) == IF c = <<>> THEN <<"0">> ELSE StripZeros(c)
IntegerLess(c, d) ==
    LET x == Numeral(c)
        y == Numeral(d)
    IN Len(x) < Len(y) \/ (Len(x) = Len(y) /\ DigitsLess(x, y))

\* a component that converts to a number: digits only (possibly none)
IsNumericPart(c) == \A i \in 1..Len(c) : IsDigit(c[i])

\* position i (1-based) can decide the comparison of the strings of parts pa
\* and pb: it is one of the first three, both strings have it and both
\* components are numeric
Decidable(pa, pb, i) ==
    /\ i \in 1..SemVerParts
    /\ i <= Len(pa) /\ i <= Len(pb)
    /\ IsNumericPart(pa[i]) /\ IsNumericPart(pb[i])

\* the positions at which the two strings can be told apart
Differing(pa, pb) ==
    {i \in 1..SemVerParts :
        /\ Decidable(pa, pb, i)
        /\ (IntegerLess(pa[i], pb[i]) \/ IntegerLess(pb[i], pa[i]))}

\* the result the first differing position gives, 0 if there is none
Expected(a, b) ==
    LET pa == PartsOf(a)
        pb == PartsOf(b)
        diff == Differing(pa, pb)
    IN IF diff = {} THEN 0
       ELSE LET i == CHOOSE k \in diff : \A j \in diff : k <= j
            IN IF IntegerLess(pa[i], pb[i]) THEN -1 ELSE 1

\* C1: for version strings a and b of exactly three non-negative integer
\* components, compareSemVer(a, b) = -compareSemVer(b, a), and
\* compareSemVer(a, a) = 0.
C1_Antisymmetric ==
    (Called /\ IsIntegerTriple(verA) /\ IsIntegerTriple(verB)) =>
        /\ verResult = 0 - compareSemVer(verB, verA)
        /\ (verA = verB => verResult = 0)

\* compareSemVer('1.01.1', '1.1.2') has returned -1
C1_Witness ==
    /\ Called
    /\ verA = <<"1", ".", "0", "1", ".", "1">>
    /\ verB = <<"1", ".", "1", ".", "2">>
    /\ verResult = -1

\* C2: on three-component integer versions the result is 1 or -1 according to
\* the first of major, minor, patch at which the integer values differ, and 0
\* if none differs; leading zeros do not change a value.
C2_Numeric ==
    (Called /\ IsIntegerTriple(verA) /\ IsIntegerTriple(verB)) =>
        verResult = Expected(verA, verB)

\* compareSemVer('1.2.10', '1.2.2') has returned 1
C2_Witness ==
    /\ Called
    /\ verA = <<"1", ".", "2", ".", "1", "0">>
    /\ verB = <<"1", ".", "2", ".", "2">>
    /\ verResult = 1

\* a version string whose first three components are all present and numeric
IsWellFormed(v) ==
    LET parts == PartsOf(v)
    IN /\ Len(parts) >= SemVerParts
       /\ \A i \in 1..SemVerParts : IsNumericPart(parts[i])

\* a version string all of whose components are non-negative integers
IsNumericVersion(v) ==
    LET parts == PartsOf(v) IN \A i \in 1..Len(parts) : IsIntegerPart(parts[i])

WellFormedVersions == {v \in OrderVersions : IsWellFormed(v)}

\* C3 as stated: over the dot-separated numeric version strings, also those
\* with fewer than three components, "compares <= 0" is transitive and
\* "compares as 0" is transitive.
C3_TotalOrderOnAllStrings ==
    (Called /\ IsNumericVersion(verA) /\ IsNumericVersion(verB)) =>
        \A c \in {v \in OrderVersions : IsNumericVersion(v)} :
            /\ (verResult <= 0 /\ compareSemVer(verB, c) <= 0)
                   => compareSemVer(verA, c) <= 0
            /\ (verResult = 0 /\ compareSemVer(verB, c) = 0)
                   => compareSemVer(verA, c) = 0

\* C3 (amended): over the version strings whose first three components are
\* present and numeric, "compares <= 0" is transitive, "compares as 0" is
\* transitive, and two strings compare in opposite senses.
C3_TotalOrderOnWellFormed ==
    (Called /\ IsWellFormed(verA) /\ IsWellFormed(verB)) =>
        /\ verResult = 0 - compareSemVer(verB, verA)
        /\ \A c \in WellFormedVersions :
            /\ (verResult <= 0 /\ compareSemVer(verB, c) <= 0)
                   => compareSemVer(verA, c) <= 0
            /\ (verResult = 0 /\ compareSemVer(verB, c) = 0)
                   => compareSemVer(verA, c) = 0

\* compareSemVer('1.01.1', '1.1.01') has returned 0 and some string is above
\* both
C3_Witness ==
    /\ Called
    /\ verA = <<"1", ".", "0", "1", ".", "1">>
    /\ verB = <<"1", ".", "1", ".", "0", "1">>
    /\ verResult = 0
    /\ \E c \in WellFormedVersions : compareSemVer(verB, c) < 0

\* C4: compareSemVer returns -1, 0 or 1 for any two strings; a position at
\* which either side is missing or non-numeric (converts to NaN) never decides:
\* the result is the one given by the first of the three leading positions
\* that both strings have as numbers and at which they differ, and 0 if there
\* is none; components after the third are not looked at.
C4_BestEffort ==
    Called =>
        /\ verResult \in {-1, 0, 1}
        /\ verResult = Expected(verA, verB)

\* compareSemVer('1.a.1.a', '1.1..1') has returned 1: the second position is
\* skipped, the third decides (1 against the empty component, which is 0), the
\* fourth is not looked at
C4_Witness ==
    /\ Called
    /\ verA = <<"1", ".", "a", ".", "1", ".", "a">>
    /\ verB = <<"1", ".", "1", ".", ".", "1">>
    /\ verResult = 1

-----------------------------------------------------------------------------
(* Properties of parsePinnedRequirementsTree *)

Returned == op = "returned"

\* the text made of the given lines
TextOf(ls) == Join(ls, <<"\n">>)

\* a line as the parser reads it
Normal(raw) == ToLowerCase(Trim(raw))

\* the text without its lines that satisfy drop
Without(text, drop(_)) ==
    LET keep(l) == ~drop(l) IN TextOf(SelectSeq(Split(text, "\n"), keep))

\* a package name: letters and digits
IsPackageName(x) ==
    /\ x # <<>>
    /\ \A i \in 1..Len(x) : IsDigit(x[i]) \/ x[i] \in Range(LowerChars)

\* what a comment line says after its '# via' or its '#'
AnnotationText(line) ==
    IF StartsWith(line, <<"#", " ", "v", "i", "a">>)
    THEN Trim(SubSeq(line, 6, Len(line)))
    ELSE IF StartsWith(line, <<"#">>) THEN Trim(SubSeq(line, 2, Len(line)))
    ELSE <<>>

\* a via annotation: '# via <x>' or '#   <x>' with x a package name
IsViaAnnotation(line) == IsPackageName(AnnotationText(line))

\* a pin line <pkg>==<version>
IsPin(line) == IndexOf(line, <<"=", "=">>) > 1
PinName(line) == Trim(SubSeq(line, 1, IndexOf(line, <<"=", "=">>) - 1))

\* the indexes of the pin lines of ls before line n
PinsBefore(ls, n) == {i \in 1..(n - 1) : IsPin(ls[i])}

\* the package of the most recent pin line before line n
LastPin(ls, n) ==
    PinName(ls[CHOOSE i \in PinsBefore(ls, n) : \A j \in PinsBefore(ls, n) : i >= j])

\* a list of a node that may not exist yet
ListIn(obj, key, field) == IF key \in DOMAIN obj THEN obj[key][field] ELSE <<>>

\* new is old plus the one edge "pkg is there via x"
OneEdgeAdded(old, new, pkg, x) ==
    /\ DOMAIN new = DOMAIN old \cup {pkg, x}
    /\ new[x].deps = Append(ListIn(old, x, "deps"), pkg)
    /\ new[pkg].vias = Append(ListIn(old, pkg, "vias"), x)
    /\ new[x].version = (IF x \in DOMAIN old THEN old[x].version ELSE null)
    /\ pkg \in DOMAIN old /\ new[pkg].version = old[pkg].version
    /\ x # pkg => /\ new[x].vias = ListIn(old, x, "vias")
                  /\ new[pkg].deps = ListIn(old, pkg, "deps")
    /\ \A k \in DOMAIN old \ {pkg, x} : new[k] = old[k]

\* C6: every via annotation that follows a pin line ('# via <x>', or a
\* continuation line '#   <x>') adds exactly one edge, attributed to the most
\* recently seen pin <pkg>: pkg is appended to x.deps and x to pkg.vias, x is
\* created with version null if new, and nothing else changes; appending keeps
\* the lists in the order of the text.
C6_ViaAddsOneEdge ==
    [][(/\ op = "forEach"
        /\ lineNo' = lineNo + 1
        /\ IsViaAnnotation(lines[lineNo])
        /\ PinsBefore(lines, lineNo) # {})
       => OneEdgeAdded(depsObject, depsObject', LastPin(lines, lineNo),
                       AnnotationText(lines[lineNo]))]_vars

\* 'a==1', '# via b', '#  c' has been parsed: a is there via b and c, in
\* this order
C6_Witness ==
    /\ Returned
    /\ requirements = TextOf(<<LinePinA1, LineViaB, LineContC>>)
    /\ depsObject[<<"a">>].vias = << <<"b">>, <<"c">> >>
    /\ depsObject[<<"b">>].deps = << <<"a">> >>
    /\ depsObject[<<"c">>].version = null

\* a line the parser drops before it parses: not indented and beginning with
\* '#', or beginning (trimmed, in lower case) with '# via -r ' or '-e ', or
\* blank
IsDropped(raw) ==
    \/ StartsWith(raw, <<"#">>)
    \/ StartsWith(Normal(raw), <<"#", " ", "v", "i", "a", " ", "-", "r", " ">>)
    \/ StartsWith(Normal(raw), <<"-", "e", " ">>)
    \/ Normal(raw) = <<>>

\* C7: parsing a text gives the same graph, and ends with the same current
\* package, as parsing the text without its dropped lines.
C7_DroppedLines ==
    Returned =>
        LET end == ParseEnd(Without(requirements, IsDropped))
        IN depsObject = end.deps /\ currentDep = end.cur

\* 'a==1', '-e c', '# via b' has been parsed: the editable install between
\* the pin and its annotation left a the current package
C7_Witness ==
    /\ Returned
    /\ requirements = TextOf(<<LinePinA1, LineEditable, LineViaB>>)
    /\ depsObject[<<"a">>].vias = << <<"b">> >>
    /\ DOMAIN depsObject = {<<"a">>, <<"b">>}

\* a comment line that names a requirements file: '# via -r <file>',
\* '# -r <file>' or '#   -r <file>'
IsDashR(raw) == StartsWith(AnnotationText(Normal(raw)), <<"-", "r", " ">>)

\* C8: a comment line that references another requirements file with -r
\* creates no node and no edge wherever it is in the text: the graph is the one
\* of the text without these lines.
C8_IgnoresDashR ==
    Returned =>
        depsObject = parsePinnedRequirementsTree(Without(requirements, IsDashR))

\* a line that is neither a pin nor a comment
IsUnrecognized(raw) ==
    /\ Normal(raw) # <<>>
    /\ ~StartsWith(Normal(raw), <<"#">>)
    /\ IndexOf(Normal(raw), <<"=", "=">>) = 0

\* C9: a line that matches no recognized pattern contributes nothing to the
\* graph, and parsing never throws: the graph is the one of the text without
\* these lines.
C9_SilentOmission ==
    /\ ~thrown
    /\ Returned =>
        depsObject = parsePinnedRequirementsTree(Without(requirements, IsUnrecognized))

-----------------------------------------------------------------------------
(* Properties of mergeParsedRequirementsTree *)

Merged == op = "merged"

\* A is listed in the deps of B; B is listed in the vias of A
InDeps(g, A, B) == HasKey(g, B) /\ A \in Range(g[B].deps)
InVias(g, B, A) == HasKey(g, A) /\ B \in Range(g[A].vias)

\* the names a graph mentions
NamesOf(g) ==
    DOMAIN g \cup UNION {Range(g[k].deps) \cup Range(g[k].vias) : k \in DOMAIN g}

\* C5: in every graph folded from parsed texts with
\* mergeParsedRequirementsTree, starting from the empty graph, A is in the deps
\* of B if and only if B is in the vias of A.
C5_Bidirectional ==
    \A A \in NamesOf(subPackages), B \in NamesOf(subPackages) :
        InDeps(subPackages, A, B) <=> InVias(subPackages, B, A)

\* two files have been merged, the edge a via b from one and b via c from
\* the other
C5_Witness ==
    /\ filesRead = 2
    /\ InDeps(subPackages, <<"a">>, <<"b">>)
    /\ InDeps(subPackages, <<"b">>, <<"c">>)
    /\ InVias(subPackages, <<"c">>, <<"b">>)

\* a deps or vias list of an argument, a missing one counting as empty
FieldOrEmpty(obj, key, field) ==
    IF key \in DOMAIN obj /\ field \in DOMAIN obj[key] THEN obj[key][field] ELSE <<>>

\* the first index of x in list
FirstIndex(list, x) == CHOOSE i \in 1..Len(list) : list[i] = x /\ \A j \in 1..(i - 1) : list[j] # x

\* x comes before y in the deduplicated union of a and b: a's entries first in
\* their order, then b's entries that a does not have, in their order
Before(a, b, x, y) ==
    \/ x \in Range(a) /\ y \in Range(a) /\ FirstIndex(a, x) < FirstIndex(a, y)
    \/ x \in Range(a) /\ y \notin Range(a)
    \/ x \notin Range(a) /\ y \notin Range(a) /\ FirstIndex(b, x) < FirstIndex(b, y)

\* m is the deduplicated union of a and b
IsOrderedUnion(m, a, b) ==
    /\ Range(m) = Range(a) \cup Range(b)
    /\ \A i \in 1..Len(m), j \in 1..Len(m) : i < j => Before(a, b, m[i], m[j])

\* C10: the keys of mergeParsedRequirementsTree(a, b) are the keys of a and of
\* b, and for each key deps (likewise vias) is the deduplicated union of the
\* two lists: a's entries first in their order, then b's entries not already
\* there, every name once; a missing list counts as empty.
C10_MergeLists ==
    Merged =>
        /\ DOMAIN merged = DOMAIN obj1 \cup DOMAIN obj2
        /\ \A k \in DOMAIN merged :
            /\ IsOrderedUnion(merged[k].deps, FieldOrEmpty(obj1, k, "deps"),
                              FieldOrEmpty(obj2, k, "deps"))
            /\ IsOrderedUnion(merged[k].vias, FieldOrEmpty(obj1, k, "vias"),
                              FieldOrEmpty(obj2, k, "vias"))

\* {a: {deps: [b, b]}} and {a: {deps: [c, b]}} have been merged into
\* deps [b, c] and a materialized empty vias
C10_Witness ==
    /\ Merged
    /\ obj1 = SetKey(EmptyObject, <<"a">>, [deps |-> << <<"b">>, <<"b">> >>])
    /\ obj2 = SetKey(EmptyObject, <<"a">>, [deps |-> << <<"c">>, <<"b">> >>])
    /\ merged[<<"a">>].deps = << <<"b">>, <<"c">> >>
    /\ merged[<<"a">>].vias = <<>>

\* the version a graph gives for a key; undefined when the key or the field is
\* absent
VersionField(obj, key) ==
    IF key \in DOMAIN obj /\ "version" \in DOMAIN obj[key]
    THEN obj[key].version ELSE undefined

\* a version that is present, not null and not the empty string
IsDefinedVersion(v) == v # undefined /\ v # null /\ v # <<>>

\* C11: for each key of mergeParsedRequirementsTree(a, b) the version is a's
\* version if a has a non-null, non-empty version for the key, otherwise b's
\* version, otherwise absent; when both define different versions the first
\* one is kept.
C11_FirstVersionWins ==
    Merged =>
        \A k \in DOMAIN merged :
            merged[k].version =
                (IF IsDefinedVersion(VersionField(obj1, k))
                 THEN VersionField(obj1, k) ELSE VersionField(obj2, k))

\* {a: {version: '1', deps: [], vias: []}} and {a: {version: '2'}} have been
\* merged: the version is '1'
C11_Witness ==
    /\ Merged
    /\ obj1 = SetKey(EmptyObject, <<"a">>, [deps |-> <<>>, vias |-> <<>>, version |-> <<"1">>])
    /\ obj2 = SetKey(EmptyObject, <<"a">>, [version |-> <<"2">>])
    /\ merged[<<"a">>].version = <<"1">>

\* a call of mergeParsedRequirementsTree has returned
AfterMerge == op \in {"merged", "remerged"}

\* the graph object at g, its nodes and their arrays
ObjectsOf(h, g) ==
    {g} \cup {h[g][k] : k \in DOMAIN h[g]}
    \cup UNION {{h[h[g][k]][f] : f \in DOMAIN h[h[g][k]] \ {"version"}} :
                  k \in DOMAIN h[g]}

\* the graph returned by the last call
LastResult == IF op = "merged" THEN GraphRef("merged") ELSE GraphRef("merged2")

\* C12: mergeParsedRequirementsTree does not change its arguments and returns
\* a new graph: after the call, and after a later merge that has the result as
\* its first argument, a and b hold the keys, versions, deps and vias they
\* held before, and the result shares no object and no list with them.
C12_ArgumentsUntouched ==
    AfterMerge =>
        /\ GraphAt(heap, GraphRef("obj1")) = obj1
        /\ GraphAt(heap, GraphRef("obj2")) = obj2
        /\ ObjectsOf(heap, LastResult)
              \cap (ObjectsOf(heap, GraphRef("obj1")) \cup ObjectsOf(heap, GraphRef("obj2")))
              = {}
        /\ op = "remerged" =>
              /\ GraphAt(heap, GraphRef("merged")) = mergeParsedRequirementsTree(obj1, obj2)
              /\ ObjectsOf(heap, LastResult) \cap ObjectsOf(heap, GraphRef("merged")) = {}

\* {a: {deps: [b, b]}} and {a: {deps: [c, b]}} have been merged and the
\* result merged again: the array of the first argument still holds [b, b],
\* the one of the first result [b, c]
C12_Witness ==
    /\ op = "remerged"
    /\ obj1 = SetKey(EmptyObject, <<"a">>, [deps |-> << <<"b">>, <<"b">> >>])
    /\ obj2 = SetKey(EmptyObject, <<"a">>, [deps |-> << <<"c">>, <<"b">> >>])
    /\ heap[Ref("obj1", <<"a">>, "deps")] = << <<"b">>, <<"b">> >>
    /\ heap[Ref("merged", <<"a">>, "deps")] = << <<"b">>, <<"c">> >>
    /\ heap[Ref("merged2", <<"a">>, "deps")] = << <<"b">>, <<"c">> >>

\* C13: mergeParsedRequirementsTree is associative: merge(merge(a, b), c) and
\* merge(a, merge(b, c)) have the same keys and, for every key, the same deps
\* sequence, the same vias sequence and the same version.
C13_Associative ==
    op = "merged3" =>
        /\ DOMAIN merged = DOMAIN regrouped
        /\ DOMAIN merged = DOMAIN obj1 \cup DOMAIN obj2 \cup DOMAIN obj3
        /\ \A k \in DOMAIN merged :
            /\ merged[k].deps = regrouped[k].deps
            /\ merged[k].vias = regrouped[k].vias
            /\ merged[k].version = regrouped[k].version

\* {a: {deps: [c, b], version: null}}, {a: {deps: [b, c], version: '1'}} and
\* {a: {version: '2', vias: [c]}} have been merged in both groupings
C13_Witness ==
    /\ op = "merged3"
    /\ obj1 = SetKey(EmptyObject, <<"a">>, [deps |-> << <<"c">>, <<"b">> >>, version |-> null])
    /\ obj2 = SetKey(EmptyObject, <<"a">>, [deps |-> << <<"b">>, <<"c">> >>, version |-> <<"1">>])
    /\ obj3 = SetKey(EmptyObject, <<"a">>, [vias |-> << <<"c">> >>, version |-> <<"2">>])
    /\ regrouped[<<"a">>] =
          [deps |-> << <<"c">>, <<"b">> >>, vias |-> << <<"c">> >>, version |-> <<"1">>]

\* g and m have the same keys and, for every key, the same set of deps and the
\* same set of vias, a list that g does not have counting as empty
SameEdges(m, g) ==
    /\ DOMAIN m = DOMAIN g
    /\ \A k \in DOMAIN g :
        /\ Range(m[k].deps) = Range(FieldOrEmpty(g, k, "deps"))
        /\ Range(m[k].vias) = Range(FieldOrEmpty(g, k, "vias"))

\* C14: merging a graph g with the empty graph, on either side, returns a
\* graph with the keys of g and, for every key, the same set of deps and the
\* same set of vias, absent lists becoming empty lists.
C14_EmptyIsNeutral ==
    Merged =>
        /\ obj2 = EmptyObject => SameEdges(merged, obj1)
        /\ obj1 = EmptyObject => SameEdges(merged, obj2)

\* {} and {a: {deps: [b, c]}} have been merged into {a: {deps: [b, c],
\* vias: []}}
C14_Witness ==
    /\ Merged
    /\ obj1 = EmptyObject
    /\ obj2 = SetKey(EmptyObject, <<"a">>, [deps |-> << <<"b">>, <<"c">> >>])
    /\ merged[<<"a">>].deps = << <<"b">>, <<"c">> >>
    /\ merged[<<"a">>].vias = <<>>

-----------------------------------------------------------------------------
(* Properties of allDescendantPackages *)

Walked == op = "walked"

\* the packages that the deps of n name
Children(g, n) == IF n \in DOMAIN g THEN Range(g[n].deps) ELSE {}

RECURSIVE Closure(_, _)
\* the packages reached from those of seen by following deps
Closure(g, seen) ==
    LET next == seen \cup UNION {Children(g, n) : n \in seen}
    IN IF next = seen THEN seen ELSE Closure(g, next)

\* the packages reached from start by following deps one or more times
Reachable(g, start) == Closure(g, Children(g, start))

\* how many times x occurs in list
Occurrences(list, x) == Cardinality({i \in 1..Len(list) : list[i] = x})

\* C15: allDescendantPackages(start) returns a list that begins with start and
\* holds, once each, start and the packages reachable from start by following
\* deps, and nothing else; for a package of the graph without deps it is
\* [start].
C15_Descendants ==
    Walked =>
        /\ ~walkError
        /\ descendants # <<>> /\ descendants[1] = parent
        /\ Range(descendants) = {parent} \cup Reachable(subPackages, parent)
        /\ \A x \in Range(descendants) : Occurrences(descendants, x) = 1

\* C16: when start is not a key of the graph, allDescendantPackages(start)
\* raises no error and returns [start].
C16_MissingStart ==
    (Walked /\ parent \notin DOMAIN subPackages) =>
        /\ ~walkError
        /\ descendants = <<parent>>

\* the graph has the keys a and b, and allDescendantPackages('z') has
\* returned ['z']
C16_Witness ==
    /\ Walked
    /\ parent = <<"z">>
    /\ DOMAIN subPackages = {<<"a">>, <<"b">>}
    /\ descendants = << <<"z">> >>
    /\ ~walkError

\* the packages on a cycle through start
CycleOf(g, start) ==
    {n \in Reachable(g, start) : start \in Reachable(g, n)}

\* C17: on a graph whose deps have a cycle through start (a package that is
\* via of itself, or two packages via each other), allDescendantPackages(start)
\* ends without error and returns each package of the cycle once.
C17_CycleSafe ==
    (Walked /\ CycleOf(subPackages, parent) # {}) =>
        /\ ~walkError
        /\ \A n \in CycleOf(subPackages, parent) : Occurrences(descendants, n) = 1

-----------------------------------------------------------------------------
(* Properties of processPythonReqsDiffOutput *)

Processed == op = "processed"

DiffLinesOf(raw) == Split(raw, "\n")

\* a line that begins with sign ('-' for a removal, '+' for an addition) and
\* contains '=='
IsChangeLine(line, sign) ==
    /\ line # <<>> /\ line[1] = sign
    /\ IndexOf(line, <<"=", "=">>) > 0

\* the package of a change line <sign><pkg>==<version>, in lower case, and
\* its version
PackageOf(line) == ToLowerCase(SubSeq(line, 2, IndexOf(line, <<"=", "=">>) - 1))
VersionIn(line) == SubSeq(line, IndexOf(line, <<"=", "=">>) + 2, Len(line))

\* the packages of the change lines of ls
ChangedPackages(ls) ==
    {PackageOf(ls[i]) : i \in {j \in 1..Len(ls) :
                                  IsChangeLine(ls[j], "-") \/ IsChangeLine(ls[j], "+")}}

\* the version of the last line of ls that changes pkg with the given sign,
\* null if there is none
LastVersion(ls, pkg, sign) ==
    LET hits == {i \in 1..Len(ls) : IsChangeLine(ls[i], sign) /\ PackageOf(ls[i]) = pkg}
    IN IF hits = {} THEN null
       ELSE VersionIn(ls[CHOOSE i \in hits : \A j \in hits : i >= j])

\* C18: the result has one entry per lowercased package name of the addition
\* and removal lines that contain '=='; before is the version of the last
\* removal line of the package, null if there is none, after the version of
\* its last addition line, null if there is none; lines without '==' count
\* for nothing.
C18_BeforeAfter ==
    Processed =>
        LET ls == DiffLinesOf(rawOutput)
        IN /\ DOMAIN result = ChangedPackages(ls)
           /\ \A pkg \in DOMAIN result :
               /\ result[pkg].before = LastVersion(ls, pkg, "-")
               /\ result[pkg].after = LastVersion(ls, pkg, "+")

\* '-a==1', '+a==2', '-A==3' has been processed: a went from 3 to 2
C18_Witness ==
    /\ Processed
    /\ rawOutput = TextOf(<<DiffRemoveA1, DiffAddA2, DiffRemoveUpperA3>>)
    /\ DOMAIN result = {<<"a">>}
    /\ result[<<"a">>] = [before |-> <<"3">>, after |-> <<"2">>]

\* a line of diff metadata: 'diff ...', 'index ...', a file header '--- ...'
\* or '+++ ...', a hunk header '@@ ...'
IsMetadata(line) ==
    \/ StartsWith(line, <<"d", "i", "f", "f", " ">>)
    \/ StartsWith(line, <<"i", "n", "d", "e", "x", " ">>)
    \/ StartsWith(line, <<"-", "-", "-", " ">>)
    \/ StartsWith(line, <<"+", "+", "+", " ">>)
    \/ StartsWith(line, <<"@", "@">>)

\* C19: the metadata and header lines of a diff never create or modify an
\* entry of the result, even when they contain '==': the result is the one of
\* the diff without these lines.
C19_IgnoresMetadata ==
    Processed =>
        result = processPythonReqsDiffOutput(Without(rawOutput, IsMetadata))

-----------------------------------------------------------------------------
(* Properties of getDockerTags *)

Tagged == op = "tagged"

\* some tag is <repo>:latest or <repo>:latest-<chunks>
HasLatestTag(ts) ==
    \E i \in 1..Len(ts) : StartsWith(ts[i], REPO \o <<":">> \o <<"l", "a", "t", "e", "s", "t">>)

\* C20: for a release build without forceLatest and with a known latest
\* release, the latest tag is added if and only if the release being built
\* compares >= 0 against the latest release; a build that is not a release
\* gets it only with forceLatest.
C20_LatestOnlyForNewest ==
    Tagged =>
        /\ (buildContext = <<"r", "e", "l", "e", "a", "s", "e">> /\ ~forceLatest /\ latestRelease # null
              /\ IsIntegerTriple(buildContextRef))
             => (HasLatestTag(tags) <=> compareSemVer(buildContextRef, latestRelease) >= 0)
        /\ (buildContext # <<"r", "e", "l", "e", "a", "s", "e">> /\ ~forceLatest) => ~HasLatestTag(tags)

-----------------------------------------------------------------------------
(* More properties of parsePinnedRequirementsTree *)

\* the version that a pin line <pkg>==<version> gives
PinVersion(line) == Trim(SubSeq(line, IndexOf(line, <<"=", "=">>) + 2, Len(line)))

\* the indexes of the pin lines of ls that give pkg a non-empty version
VersionPins(ls, pkg) ==
    {i \in 1..Len(ls) : IsPin(ls[i]) /\ PinName(ls[i]) = pkg /\ PinVersion(ls[i]) # <<>>}

\* a step of the loop on a pin line whose package already has a node: the
\* version is overwritten if the new one is not empty, and nothing else changes
RepinKeepsEdges ==
    (/\ op = "forEach"
     /\ lineNo' = lineNo + 1
     /\ IsPin(lines[lineNo])
     /\ PinName(lines[lineNo]) \in DOMAIN depsObject)
    => LET pkg == PinName(lines[lineNo])
           version == PinVersion(lines[lineNo])
       IN /\ DOMAIN depsObject' = DOMAIN depsObject
          /\ depsObject'[pkg].deps = depsObject[pkg].deps
          /\ depsObject'[pkg].vias = depsObject[pkg].vias
          /\ depsObject'[pkg].version =
                (IF version # <<>> THEN version ELSE depsObject[pkg].version)
          /\ \A k \in DOMAIN depsObject \ {pkg} : depsObject'[k] = depsObject[k]

\* after parsing, a package that has a pin line with a non-empty version has
\* the version of the last such line
LastVersionWins ==
    Returned =>
        \A k \in DOMAIN depsObject :
            LET pins == VersionPins(lines, k)
            IN pins # {} =>
                 depsObject[k].version =
                     PinVersion(lines[CHOOSE i \in pins : \A j \in pins : i >= j])

\* C21: a pin line for a name that already has a node overwrites the stored
\* version when the new version is not empty and leaves it unchanged when it
\* is empty, and never resets the deps and vias of the node; after parsing,
\* the version of a package is the one of its last pin line with a non-empty
\* version.
C21_LastVersionWins == [][RepinKeepsEdges]_vars /\ []LastVersionWins

\* 'a==1', ' # via b', 'A==2' has been parsed: a has version 2 and is
\* still there via b
C21_Witness ==
    /\ Returned
    /\ requirements = TextOf(<<LinePinA1, LineViaB, LinePinUpperA2>>)
    /\ depsObject[<<"a">>].version = <<"2">>
    /\ depsObject[<<"a">>].vias = << <<"b">> >>
    /\ depsObject[<<"b">>].deps = << <<"a">> >>

\* the names that the parser derived from via-annotation lines: the entries of
\* the vias lists
ViaNames(g) == UNION {Range(g[k].vias) : k \in DOMAIN g}

\* C22: no package name that the parser derives from a via-annotation line,
\* as a key of the graph or as an entry of a vias list, contains a '#' or
\* begins or ends with white space.
C22_CleanViaNames ==
    \A x \in ViaNames(depsObject) :
        /\ x \in DOMAIN depsObject
        /\ "#" \notin Range(x)
        /\ Trim(x) = x

-----------------------------------------------------------------------------
(* Properties of Github.checkIfUserInTeam *)

\* the membership requests sent for a user and a team
RequestsFor(username, team) ==
    {i \in DOMAIN requests : requests[i] = MembershipRequest(username, team)}

\* the calls made for a user and a team
CallsFor(username, team) ==
    {i \in DOMAIN calls : calls[i].username = username /\ calls[i].team = team}

\* C28: on one instance, checkIfUserInTeam sends at most one membership
\* request for a user and a team, and every later call for the same user and
\* team returns what the first call returned.
C28_OneRequestPerPair ==
    \A username \in Users, team \in Teams :
        /\ Cardinality(RequestsFor(username, team)) <= 1
        /\ \A i, j \in CallsFor(username, team) : calls[i].returned = calls[j].returned

-----------------------------------------------------------------------------
(* Properties of Github.getSubPackageTree *)

\* the merge of the graphs parsed from the two requirements files
BothFiles ==
    mergeParsedRequirementsTree(
        mergeParsedRequirementsTree(EmptyObject,
            parsePinnedRequirementsTree(reqsData["requirements/base.txt"])),
        parsePinnedRequirementsTree(reqsData["requirements/development.txt"]))

\* C27: on one instance, every call of getSubPackageTree without onlyBase
\* returns the merge of the graphs of requirements/base.txt and
\* requirements/development.txt, whatever calls were made before it.
C27_AlwaysBothFiles ==
    \A i \in DOMAIN calls :
        (calls[i].method = "getSubPackageTree" /\ ~calls[i].onlyBase) =>
            calls[i].returned = BothFiles

-----------------------------------------------------------------------------
(* Properties of Github.syncLabels *)

Synced == op = "synced"

\* the prefixes that mark the labels syncLabels manages
TrackedPrefixes == {<<Ship>>, <<Cherry>>, <<Dart>>, <<LabelTag, VariationSelector>>}

IsTracked(label) ==
    \E s \in TrackedPrefixes : Len(label) >= Len(s) /\ SubSeq(label, 1, Len(s)) = s

\* the actor of a call may change labels: there is none, or the actor is an
\* active member of the committer team
IsPermitted(actor) ==
    actor = null \/ membership[<<actor, COMMITTER_TEAM>>] = "active"

\* the requests that change the labels of the pull request
LabelChanges ==
    {i \in DOMAIN requests :
        requests[i].api \in {"issues.addLabels", "issues.removeLabel"}}

\* C25: after syncLabels with dryRun false and a permitted actor, the labels of
\* the pull request are the labels it had that carry no tracked prefix,
\* together with the target labels; with an actor that is not permitted, or
\* with dryRun, no request that adds or removes a label is sent.
C25_SyncedLabels ==
    Synced =>
        LET call == calls[1]
        IN IF IsPermitted(call.actor) /\ ~call.dryRun
           THEN Range(issueLabels) =
                    {l \in Range(call.onIssue) : ~IsTracked(l)} \cup Range(call.labels)
           ELSE LabelChanges = {} /\ issueLabels = call.onIssue

\* a label without tracked prefix is kept, a tracked label that is no target
\* is removed and a target label is added
C25_Witness ==
    /\ Synced
    /\ calls[1].actor = <<"u">> /\ ~calls[1].dryRun
    /\ membership[<<<<"u">>, COMMITTER_TEAM>>] = "active"
    /\ calls[1].onIssue = <<LabelShip1, LabelTagBare>>
    /\ calls[1].labels = <<LabelShip2>>
    /\ Range(issueLabels) = {LabelTagBare, LabelShip2}

-----------------------------------------------------------------------------
(* Properties of Github.createBumpLibPullRequest *)

Bumped == op = "bumped"

\* the version-change map of the re-lock
VersionChanges == processPythonReqsDiffOutput(rawDiff)

\* the package has a version change that can be observed
HasVersionChange(lib) ==
    /\ lib \in DOMAIN VersionChanges
    /\ VersionChanges[lib].before # VersionChanges[lib].after

\* the packages of the bumped list: the package, and with includeSubpackages
\* the packages that need it, whatever the depth
BumpedList(call) ==
    {call.pythonPackage}
    \cup (IF call.includeSubpackages THEN Reachable(BothFiles, call.pythonPackage)
          ELSE {})

\* the requests that make a branch, a commit, a push or a pull request
BumpActions ==
    {i \in DOMAIN requests :
        requests[i].api \in {"git checkout -b", "git commit", "git push", "pulls.create"}}

\* C24: createBumpLibPullRequest makes a branch, a commit, a push or a pull
\* request only if a package of the bumped list has a before that differs
\* from its after in the version-change map; a package that the map has not,
\* or whose before equals its after, is unchanged.
C24_OnlyOnVersionChange ==
    (Bumped /\ BumpActions # {}) =>
        \E lib \in BumpedList(calls[1]) : HasVersionChange(lib)

\* a is bumped, the diff says that a went from 1 to 2, and a pull request is
\* made
C24_Witness ==
    /\ Bumped
    /\ calls[1].pythonPackage = <<"a">>
    /\ rawDiff = Join(<<DiffRemoveA1, DiffAddA2>>, <<"\n">>)
    /\ \E i \in BumpActions : requests[i].api = "pulls.create"

\* the text of a list of lines, each with its line end
RECURSIVE Concat(_)
Concat(texts) == IF texts = <<>> THEN <<>> ELSE Head(texts) \o Concat(Tail(texts))

RECURSIVE IndentedTree(_, _, _, _)
\* the tree of a package: its name after two spaces per level, then the tree
\* of each of its vias in order, one level deeper; depth bounds the levels,
\* which a graph without cycle of vias never reaches
IndentedTree(g, lib, level, depth) ==
    IF depth = 0 THEN <<>>
    ELSE LET vias == IF lib \in DOMAIN g THEN g[lib].vias ELSE <<>>
         IN [i \in 1..(2 * level) |-> " "] \o lib \o <<"\n">>
            \o Concat([i \in DOMAIN vias |->
                          IndentedTree(g, vias[i], level + 1, depth - 1)])

\* C23: when createBumpLibPullRequest renders the tree of the bumped package,
\* recurseVias ends without error, and the text is the package at depth 0
\* followed by the tree of each of its vias one level deeper, whatever graph
\* the requirements files give.
C23_TreeRendered ==
    (Bumped /\ calls[1].outcome.rendering) =>
        /\ calls[1].outcome.thrown \notin {"TypeError", "RangeError"}
        /\ calls[1].outcome.depTree =
               IndentedTree(BothFiles, calls[1].pythonPackage, 0,
                            Cardinality(DOMAIN BothFiles) + 1)

\* C26: when createBumpLibPullRequest was called with useCurrentRepo false,
\* the temporary directory of the clone is removed once the call is over,
\* however the call ended.
C26_TmpDirRemoved ==
    (Bumped /\ ~calls[1].useCurrentRepo) => tmpDir = "removed"

====
